---- MODULE Spec2Model ----
(***************************************************************************)
(* The markdown pipeline of the blog (utils/markdown): the definition-list *)
(* block extension, the renderer overrides, the sanitize policy with its   *)
(* anchor transform, and renderMarkdown, which runs them in sequence.      *)
(*                                                                         *)
(* Text is a sequence of one-character strings.  Offsets are the code's    *)
(* 0-based string offsets; Slice(src, p) is src.slice(p).                  *)
(***************************************************************************)
EXTENDS Integers, Sequences, FiniteSets, TLC

\* ------------------------------------------------------------------ bounds
\* Longest enumerated markdown source, in characters.
MaxLen == 5
\* Most raw HTML elements embedded in one enumerated source.
MaxRaw == 1

\* ------------------------------------------------------------ characters
\* The characters enumerated sources are built from: a word character, the
\* definition marker, a space and a line feed.
Alphabet == {"a", ":", " ", "\n"}

\* JavaScript's \s on the characters a source can hold (the lexer replaces
\* \r\n and \r by \n before any block rule runs).
IsSpace(c) == c \in {" ", "\n", "\t", "\r", "\f"}

Min(a, b) == IF a < b THEN a ELSE b

\* src.slice(position)
Slice(src, position) == SubSeq(src, position + 1, Len(src))

\* src.slice(0, end)
Prefix(src, end) == SubSeq(src, 1, end)

\* The number of leading characters of s that are all c.
RECURSIVE LeadingRun(_, _)
LeadingRun(s, c) ==
  IF s # <<>> /\ Head(s) = c THEN 1 + LeadingRun(Tail(s), c) ELSE 0

\* The length of the leading part of s that holds no line feed: [^\n]*
RECURSIVE LineLength(_)
LineLength(s) ==
  IF s # <<>> /\ Head(s) # "\n" THEN 1 + LineLength(Tail(s)) ELSE 0

\* String.prototype.trim
RECURSIVE TrimStart(_)
TrimStart(s) == IF s # <<>> /\ IsSpace(Head(s)) THEN TrimStart(Tail(s)) ELSE s

RECURSIVE TrimEnd(_)
TrimEnd(s) ==
  IF s # <<>> /\ IsSpace(s[Len(s)]) THEN TrimEnd(SubSeq(s, 1, Len(s) - 1)) ELSE s

Trim(s) == TrimEnd(TrimStart(s))

\* Letters and digits
LowerLetters ==
  {"a", "b", "c", "d", "e", "f", "g", "h", "i", "j", "k", "l", "m", "n", "o",
   "p", "q", "r", "s", "t", "u", "v", "w", "x", "y", "z"}
UpperLetters ==
  {"A", "B", "C", "D", "E", "F", "G", "H", "I", "J", "K", "L", "M", "N", "O",
   "P", "Q", "R", "S", "T", "U", "V", "W", "X", "Y", "Z"}
Digits == {"0", "1", "2", "3", "4", "5", "6", "7", "8", "9"}

LowerOf ==
  [c \in UpperLetters |->
     CASE c = "A" -> "a" [] c = "B" -> "b" [] c = "C" -> "c" [] c = "D" -> "d"
       [] c = "E" -> "e" [] c = "F" -> "f" [] c = "G" -> "g" [] c = "H" -> "h"
       [] c = "I" -> "i" [] c = "J" -> "j" [] c = "K" -> "k" [] c = "L" -> "l"
       [] c = "M" -> "m" [] c = "N" -> "n" [] c = "O" -> "o" [] c = "P" -> "p"
       [] c = "Q" -> "q" [] c = "R" -> "r" [] c = "S" -> "s" [] c = "T" -> "t"
       [] c = "U" -> "u" [] c = "V" -> "v" [] c = "W" -> "w" [] c = "X" -> "x"
       [] c = "Y" -> "y" [] c = "Z" -> "z"]

\* String.prototype.toLowerCase
ToLowerCase(t) == [i \in 1..Len(t) |-> IF t[i] \in UpperLetters THEN LowerOf[t[i]] ELSE t[i]]

UpperOf ==
  [c \in LowerLetters |-> CHOOSE u \in UpperLetters : LowerOf[u] = c]

\* String.prototype.toUpperCase of one character
ToUpperCase(c) == IF c \in LowerLetters THEN UpperOf[c] ELSE c

\* Whether hljs.highlight throws on this source: the one thing the rendering
\* takes from outside its argument.  And the names hljs has a grammar
\* registered under, which lines 25-67 fill when the module is loaded.
VARIABLES hljsThrows, registry

\* --------------------------------------------- definition list: the regexes
NoMatch == [ok |-> FALSE, len |-> 0, group |-> <<>>]

\* /^( {0,3}(?![:\s])\S[^\n]*)(?:\n|$)/  : a term line.  The greedy run of
\* spaces cannot give a space back: the character after it would be a space,
\* which (?![:\s]) refuses.
TermMatch(slice) ==
  LET k    == LeadingRun(slice, " ")
      body == LineLength(Slice(slice, k))
      eol  == IF k + body < Len(slice) THEN 1 ELSE 0
  IN  IF k <= 3 /\ k < Len(slice) /\ ~IsSpace(slice[k + 1]) /\ slice[k + 1] # ":"
      THEN [ok |-> TRUE, len |-> k + body + eol, group |-> Prefix(slice, k + body)]
      ELSE NoMatch

\* /^( {0,3}:\s.*)(?:\n|$)/  : a definition line.  \s also matches a line
\* feed, so after a bare ":" the .* runs over the following line.
DefinitionMatch(ddSlice) ==
  LET k    == LeadingRun(ddSlice, " ")
      body == LineLength(Slice(ddSlice, k + 2))
      eol  == IF k + 2 + body < Len(ddSlice) THEN 1 ELSE 0
  IN  IF k <= 3 /\ k + 2 <= Len(ddSlice) /\ ddSlice[k + 1] = ":" /\ IsSpace(ddSlice[k + 2])
      THEN [ok |-> TRUE, len |-> k + 2 + body + eol, group |-> Prefix(ddSlice, k + 2 + body)]
      ELSE NoMatch

\* definitionMatch[1].replace(/^\s*:\s?/, '')
DefinitionContent(group) ==
  LET rest == TrimStart(group)
  IN  IF rest # <<>> /\ Head(rest) = ":"
      THEN IF Len(rest) >= 2 /\ IsSpace(rest[2]) THEN Slice(rest, 2) ELSE Slice(rest, 1)
      ELSE group

\* /^\n+/ : the length of the match, 0 when there is none
BlankMatch(slice) == LeadingRun(slice, "\n")

\* /^\n{2,}/.test(slice)
StartsWithBlankLines(slice) == LeadingRun(slice, "\n") >= 2

\* --------------------------------------------- definition list: tokenizer
\* The inner while loop (lines 112-124): the definition lines at position.
RECURSIVE CollectDefinitions(_, _, _)
CollectDefinitions(src, position, descriptions) ==
  LET definitionMatch == DefinitionMatch(Slice(src, position))
  IN  IF position < Len(src) /\ definitionMatch.ok
      THEN CollectDefinitions(src, position + definitionMatch.len,
             Append(descriptions, Trim(DefinitionContent(definitionMatch.group))))
      ELSE [position |-> position, descriptions |-> descriptions,
            hasDefinition |-> descriptions # <<>>]

\* A mutant of NoDefinition: the backtracking test is lost.
NoDefinitionNeverBacktracks(hasDefinition) == FALSE

\* if (!hasDefinition) (line 126)
NoDefinition(hasDefinition) == ~hasDefinition

\* A mutant of ConsumeBlank: blank lines after an entry are not consumed.
ConsumeBlankNothing(slice) == 0

\* Lines 136-140: the blank lines consumed after an entry.
ConsumeBlank(slice) == BlankMatch(slice)

\* The outer while loop (lines 92-148) from the loop head, as the record of
\* the loop's variables when it ends.
RECURSIVE TokenizerLoop(_, _, _, _)
TokenizerLoop(src, position, lastPosition, items) ==
  LET stop      == [position |-> position, lastPosition |-> lastPosition, items |-> items]
      slice     == Slice(src, position)
      termMatch == TermMatch(slice)
      defs      == CollectDefinitions(src, position + termMatch.len, <<>>)
      pushed    == Append(items, [term |-> Trim(termMatch.group),
                                  descriptions |-> defs.descriptions])
      after     == defs.position + ConsumeBlank(Slice(src, defs.position))
  IN  IF ~(position < Len(src)) THEN stop
      ELSE IF slice = <<>> \/ StartsWithBlankLines(slice) THEN stop
      ELSE IF ~termMatch.ok THEN stop
      ELSE IF NoDefinition(defs.hasDefinition) THEN stop
      ELSE IF ~TermMatch(Slice(src, after)).ok
           THEN [position |-> after, lastPosition |-> after, items |-> pushed]
           ELSE TokenizerLoop(src, after, after, pushed)

\* The value of a declined match.
Undefined == [type |-> "undefined", raw |-> <<>>, text |-> <<>>, items |-> <<>>]

\* A mutant of tokenizer: the test for an empty items list is lost.
tokenizerWithoutItemsTest(src) ==
  LET end      == TokenizerLoop(src, 0, 0, <<>>)
      consumed == IF end.lastPosition > 0 THEN end.lastPosition ELSE end.position
  IN  [type |-> "definitionList", raw |-> Prefix(src, consumed),
       text |-> <<>>, items |-> end.items]

\* A mutant of tokenizer: the raw span is the whole source.
tokenizerRawWholeSource(src) ==
  LET end == TokenizerLoop(src, 0, 0, <<>>)
  IN  IF Len(end.items) = 0
      THEN Undefined
      ELSE [type |-> "definitionList", raw |-> src, text |-> <<>>, items |-> end.items]

\* definitionListExtension.tokenizer
tokenizer(src) ==
  LET end      == TokenizerLoop(src, 0, 0, <<>>)
      consumed == IF end.lastPosition > 0 THEN end.lastPosition ELSE end.position
  IN  IF Len(end.items) = 0
      THEN Undefined
      ELSE [type |-> "definitionList", raw |-> Prefix(src, consumed),
            text |-> <<>>, items |-> end.items]

\* definitionListExtension.start: the first offset at which
\* /^(?: {0,3}(?![:\s])\S[^\n]*\n {0,3}:\s+)/m matches, or -1 for undefined.
\* With the m flag ^ matches at offset 0 and after every line feed.
StartMatchesAt(src, i) ==
  LET line == Slice(src, i)
      k    == LeadingRun(line, " ")
      body == LineLength(Slice(line, k))
      next == Slice(line, k + body + 1)
      k2   == LeadingRun(next, " ")
  IN  /\ i = 0 \/ src[i] = "\n"
      /\ k <= 3 /\ k < Len(line) /\ ~IsSpace(line[k + 1]) /\ line[k + 1] # ":"
      /\ k + body < Len(line)
      /\ k2 <= 3 /\ k2 + 2 <= Len(next) /\ next[k2 + 1] = ":" /\ IsSpace(next[k2 + 2])

\* A mutant of start: the m flag is lost, only offset 0 is tried.
startWithoutMultiline(src) == IF StartMatchesAt(src, 0) THEN 0 ELSE -1

start(src) ==
  LET hits == {i \in 0..Len(src) : StartMatchesAt(src, i)}
  IN  IF hits = {} THEN -1 ELSE CHOOSE i \in hits : \A j \in hits : i <= j

\* -------------------------------------- the base grammar (Marked, gfm, breaks)
\* The block rules of the Marked instance that can apply to a source built
\* from word characters, ":", spaces and line feeds: newline, indented code
\* and paragraph.  The extension's tokenizer is tried before all of them.

\* newline: /^(?:[ \t]*(?:\n|$))+/ ; the length of the match, 0 for none
RECURSIVE SpaceMatch(_)
SpaceMatch(s) ==
  LET k == LeadingRun(s, " ")
  IN  IF s = <<>> THEN 0
      ELSE IF k = Len(s) THEN k
      ELSE IF s[k + 1] = "\n" THEN k + 1 + SpaceMatch(Slice(s, k + 1))
      ELSE 0

\* code: /^((?: {4}| {0,3}\t)[^\n]+(?:\n(?:[ \t]*(?:\n|$))*)?)+/
RECURSIVE CodeMatch(_)
CodeMatch(s) ==
  LET line == LineLength(s)
      rest == Slice(s, line + 1)
      gap  == SpaceMatch(rest)
  IN  IF LeadingRun(s, " ") >= 4 /\ line > 4
      THEN IF line < Len(s)
           THEN line + 1 + gap + CodeMatch(Slice(rest, gap))
           ELSE line
      ELSE 0

\* The closing line of a fence opened with n tildes: / {0,3}~{n,} *(?=\n|$)/
IsClosingFence(line, n) ==
  LET k == LeadingRun(line, " ")
      m == LeadingRun(Slice(line, k), "~")
  IN  k <= 3 /\ m >= n /\ Slice(line, k + m) = [i \in 1..(Len(line) - k - m) |-> " "]

\* The offset in s of the first closing fence line, or Len(s) + 1 when the
\* fence is never closed.
RECURSIVE ClosingFenceAt(_, _, _)
ClosingFenceAt(s, offset, n) ==
  LET line == LineLength(Slice(s, offset))
  IN  IF offset > Len(s) THEN Len(s) + 1
      ELSE IF IsClosingFence(SubSeq(s, offset + 1, offset + line), n) /\ offset < Len(s)
           THEN offset
      ELSE IF offset + line >= Len(s) THEN Len(s) + 1
      ELSE ClosingFenceAt(s, offset + line + 1, n)

\* fences, for a fence of tildes: the opening line with its info string, the
\* lines up to the closing fence or the end of the source.
FencesMatch(s) ==
  LET k       == LeadingRun(s, " ")
      n       == LeadingRun(Slice(s, k), "~")
      first   == LineLength(s)
      info    == SubSeq(s, k + n + 1, first)
      body    == first + 1
      closing == ClosingFenceAt(s, body, n)
      closed  == closing <= Len(s)
      end     == IF closed THEN closing + LineLength(Slice(s, closing)) ELSE Len(s)
      text    == IF first >= Len(s) THEN <<>>
                 ELSE IF closed THEN SubSeq(s, body + 1, closing - 1)
                 ELSE (IF s[Len(s)] = "\n" THEN SubSeq(s, body + 1, Len(s) - 1)
                       ELSE SubSeq(s, body + 1, Len(s)))
  IN  IF k <= 3 /\ n >= 3
      THEN [ok |-> TRUE, len |-> end, info |-> info, text |-> text]
      ELSE [ok |-> FALSE, len |-> 0, info |-> <<>>, text |-> <<>>]

\* paragraph: /^([^\n]+(?:\n(?! +\n)[^\n]+)*)/ ; the other interrupting
\* constructs need characters the sources do not hold.
RECURSIVE ParagraphMatch(_)
ParagraphMatch(s) ==
  LET line == LineLength(s)
      next == Slice(s, line + 1)
      k    == LeadingRun(next, " ")
  IN  IF line = 0 THEN 0
      ELSE IF /\ line < Len(s)
              /\ LineLength(next) > 0
              /\ ~(k >= 1 /\ k < Len(next) /\ next[k + 1] = "\n")
           THEN line + 1 + ParagraphMatch(next)
           ELSE line

\* The paragraph rule sees the source clipped at the extension's start:
\* cutSrc = src.substring(0, start(src.slice(1)) + 1).
CutSrc(src) ==
  LET startIndex == start(Slice(src, 1))
  IN  IF startIndex >= 0 THEN Prefix(src, startIndex + 1) ELSE src

\* The text of an indented code token: the indentation of every line and
\* the trailing line feeds removed.
RECURSIVE Unindent(_, _)
Unindent(s, atLineStart) ==
  IF s = <<>> THEN <<>>
  ELSE IF atLineStart /\ LeadingRun(s, " ") >= 1
       THEN Unindent(Slice(s, Min(4, LeadingRun(s, " "))), FALSE)
       ELSE <<Head(s)>> \o Unindent(Tail(s), Head(s) = "\n")

RECURSIVE StripLineFeeds(_)
StripLineFeeds(s) ==
  IF s # <<>> /\ s[Len(s)] = "\n" THEN StripLineFeeds(Prefix(s, Len(s) - 1)) ELSE s

BlockToken(type, raw, text) == [type |-> type, raw |-> raw, text |-> text, items |-> <<>>]

\* A code token: lang is the info string of a fence, undefined for an
\* indented block.
CodeToken(raw, text, lang) ==
  [type |-> "code", raw |-> raw, text |-> text, items |-> <<>>, lang |-> lang]

\* The lines of a text, split at line feeds.
RECURSIVE Lines(_)
Lines(s) ==
  LET line == LineLength(s)
  IN  IF line < Len(s)
      THEN <<Prefix(s, line)>> \o Lines(Slice(s, line + 1))
      ELSE <<s>>


\* ------------------------------------------------------------ HTML fragments
\* A rendered fragment is the sequence of its tags and text runs.  An
\* attribute set is a function from attribute names to values; every value
\* is a text.
NoAttribs == [a \in {} |-> <<>>]

Open(tag, attribs) == [k |-> "open", tag |-> tag, attribs |-> attribs, text |-> <<>>]
Close(tag) == [k |-> "close", tag |-> tag, attribs |-> NoAttribs, text |-> <<>>]
Text(t) == [k |-> "text", tag |-> "#text", attribs |-> NoAttribs, text |-> t]

\* Elements without content or end tag.
VoidTags == {"br", "img", "hr", "wbr"}

\* Several fragments joined.
RECURSIVE Concat(_)
Concat(parts) == IF parts = <<>> THEN <<>> ELSE Head(parts) \o Concat(Tail(parts))

\* ---------------------------------------------------- JavaScript values
\* The values the language functions handle: strings, undefined, the
\* functions and the object every object literal inherits, and a thrown
\* TypeError.
Str(t) == [type |-> "string", text |-> t]
JsUndefined == [type |-> "undefined", text |-> <<>>]
JsNull == [type |-> "null", text |-> <<>>]
ObjectFunction(name) == [type |-> "function", text |-> name]
ObjectPrototype == [type |-> "object", text |-> <<>>]
Thrown == [type |-> "throw", text |-> <<>>]

\* The methods an object literal inherits from Object.prototype.
InheritedMethods ==
  {<<"c", "o", "n", "s", "t", "r", "u", "c", "t", "o", "r">>, <<"t", "o", "S", "t", "r", "i", "n", "g">>, <<"t", "o", "L", "o", "c", "a", "l", "e", "S", "t", "r", "i", "n", "g">>, <<"v", "a", "l", "u", "e", "O", "f">>, <<"h", "a", "s", "O", "w", "n", "P", "r", "o", "p", "e", "r", "t", "y">>,
   <<"i", "s", "P", "r", "o", "t", "o", "t", "y", "p", "e", "O", "f">>, <<"p", "r", "o", "p", "e", "r", "t", "y", "I", "s", "E", "n", "u", "m", "e", "r", "a", "b", "l", "e">>, <<"_", "_", "d", "e", "f", "i", "n", "e", "G", "e", "t", "t", "e", "r", "_", "_">>, <<"_", "_", "d", "e", "f", "i", "n", "e", "S", "e", "t", "t", "e", "r", "_", "_">>,
   <<"_", "_", "l", "o", "o", "k", "u", "p", "G", "e", "t", "t", "e", "r", "_", "_">>, <<"_", "_", "l", "o", "o", "k", "u", "p", "S", "e", "t", "t", "e", "r", "_", "_">>}

\* table[key] for an object literal: an own property, else what the
\* prototype chain gives, else undefined.
Property(table, key) ==
  IF key \in DOMAIN table THEN Str(table[key])
  ELSE IF key \in InheritedMethods THEN ObjectFunction(key)
  ELSE IF key = <<"_", "_", "p", "r", "o", "t", "o", "_", "_">> THEN ObjectPrototype
  ELSE JsUndefined

\* The property key a value is converted to: a string is itself, a function
\* or an object becomes a text that names no property.
KeyOf(v) == IF v.type = "string" THEN v.text ELSE <<"[", "o", "b", "j", "e", "c", "t", "]">>

Truthy(v) == v.type \in {"function", "object"} \/ (v.type = "string" /\ v.text # <<>>)
Nullish(v) == v.type \in {"undefined", "null"}

\* An object literal as the function from its keys to its values.
ObjectLiteral(entries) ==
  [k \in {e[1] : e \in entries} |-> (CHOOSE e \in entries : e[1] = k)[2]]

\* ------------------------------------------------------------- escaping
\* String.prototype.replace(/c/g, by)
RECURSIVE ReplaceAll(_, _, _)
ReplaceAll(t, c, by) ==
  IF t = <<>> THEN <<>>
  ELSE (IF Head(t) = c THEN by ELSE <<Head(t)>>) \o ReplaceAll(Tail(t), c, by)

\* escapeHtml (lines 402-409)
escapeHtml(value) ==
  ReplaceAll(ReplaceAll(ReplaceAll(ReplaceAll(ReplaceAll(value,
    "&", <<"&", "a", "m", "p", ";">>), "<", <<"&", "l", "t", ";">>), ">", <<"&", "g", "t", ";">>), "\"", <<"&", "q", "u", "o", "t", ";">>), "'", <<"&", "#", "3", "9", ";">>)

\* The character references the markup can hold.
Entities ==
  ObjectLiteral({ <<<<"&", "a", "m", "p", ";">>, "&">>, <<<<"&", "l", "t", ";">>, "<">>, <<<<"&", "g", "t", ";">>, ">">>, <<<<"&", "q", "u", "o", "t", ";">>, "\"">>,
                  <<<<"&", "#", "3", "9", ";">>, "'">>, <<<<"&", "#", "x", "2", "7", ";">>, "'">> })

\* What an HTML parser reads from escaped markup.
RECURSIVE DecodeEntities(_)
DecodeEntities(t) ==
  LET hits == {e \in DOMAIN Entities : Len(e) <= Len(t) /\ Prefix(t, Len(e)) = e}
  IN  IF t = <<>> THEN <<>>
      ELSE IF hits # {}
           THEN LET e == CHOOSE x \in hits : TRUE
                IN  <<Entities[e]>> \o DecodeEntities(Slice(t, Len(e)))
           ELSE <<Head(t)>> \o DecodeEntities(Tail(t))

\* ------------------------------------------------------------------- images
\* An inline image token: href, text and title are the token's fields; marked
\* sets title to null when the markup has none or an empty one.
ImageToken(href, text, title) == [href |-> href, text |-> text, title |-> title]

\* The attributes every image is given (line 223).
FixedImageAttributes ==
  { <<"loading", <<"l", "a", "z", "y">>>>, <<"decoding", <<"a", "s", "y", "n", "c">>>>,
    <<"referrerpolicy", <<"n", "o", "-", "r", "e", "f", "e", "r", "r", "e", "r">>>>, <<"fetchpriority", <<"a", "u", "t", "o">>>>,
    <<"class", <<"m", "a", "r", "k", "d", "o", "w", "n", "-", "i", "m", "a", "g", "e">>>> }

\* typeof value === 'string' ? value : ''
StringOrEmpty(v) == IF v.type = "string" THEN v.text ELSE <<>>

\* The value an HTML parser reads from an attribute written escaped.
AttributeValue(t) == DecodeEntities(escapeHtml(t))

\* A mutant of renderImage: href is not trimmed.
renderImageSourceUntrimmed(token) ==
  <<Open("img", ObjectLiteral(
      { <<"src", AttributeValue(StringOrEmpty(token.href))>>,
        <<"alt", AttributeValue(StringOrEmpty(token.text))>> }
      \cup (IF StringOrEmpty(token.title) # <<>>
            THEN {<<"title", AttributeValue(StringOrEmpty(token.title))>>} ELSE {})
      \cup FixedImageAttributes))>>

\* renderer.image (lines 212-226)
renderImage(token) ==
  <<Open("img", ObjectLiteral(
      { <<"src", AttributeValue(Trim(StringOrEmpty(token.href)))>>,
        <<"alt", AttributeValue(StringOrEmpty(token.text))>> }
      \cup (IF StringOrEmpty(token.title) # <<>>
            THEN {<<"title", AttributeValue(StringOrEmpty(token.title))>>} ELSE {})
      \cup FixedImageAttributes))>>

\* The leading characters of s that are not in stops.
RECURSIVE RunNotIn(_, _)
RunNotIn(s, stops) ==
  IF s # <<>> /\ Head(s) \notin stops THEN 1 + RunNotIn(Tail(s), stops) ELSE 0

\* Marked's inline rule link for an image, ![label](href "title"), on the
\* markup the sources here hold: a label without brackets, backslashes or
\* backticks, an href written bare (no space, no parenthesis) or between
\* angle brackets, a title between double quotes, spaces around both.
NoImage == [ok |-> FALSE, len |-> 0, token |-> ImageToken(JsNull, JsNull, JsNull)]

\* From the offset after the title, or after the href when there is none:
\* spaces and the closing parenthesis.
ImageEnd(text, label, href, title, at) ==
  IF at + LeadingRun(Slice(text, at), " ") < Len(text)
     /\ text[at + LeadingRun(Slice(text, at), " ") + 1] = ")"
  THEN [ok |-> TRUE, len |-> at + LeadingRun(Slice(text, at), " ") + 1,
        token |-> ImageToken(Str(href), Str(label),
                             IF title = <<>> THEN JsNull ELSE Str(title))]
  ELSE NoImage

\* From the offset q where a title may open: the title is cap[3].slice(1, -1).
ImageTitle(text, label, href, q, n) ==
  IF q < Len(text) /\ text[q + 1] = "\"" /\ q + 1 + n < Len(text) /\ text[q + 2 + n] = "\""
  THEN ImageEnd(text, label, href, SubSeq(text, q + 2, q + 1 + n), q + 2 + n)
  ELSE ImageEnd(text, label, href, <<>>, q)

\* From the offset after the href.
ImageAfterHref(text, label, href, at) ==
  ImageTitle(text, label, href, at + LeadingRun(Slice(text, at), " "),
             RunNotIn(Slice(text, at + LeadingRun(Slice(text, at), " ") + 1), {"\"", "\\"}))

\* From the offset p where the href opens; n is the length of the run that
\* can stand between angle brackets, m that of a bare href.  An href between
\* angle brackets loses the brackets and keeps the spaces inside them.
ImageHref(text, label, p, n, m) ==
  IF p < Len(text) /\ text[p + 1] = "<"
  THEN IF n > 0 /\ p + 1 + n < Len(text) /\ text[p + 2 + n] = ">"
       THEN ImageAfterHref(text, label, SubSeq(text, p + 2, p + 1 + n), p + 2 + n)
       ELSE NoImage
  ELSE ImageAfterHref(text, label, SubSeq(text, p + 1, p + m), p + m)

\* From the offset e where the label ends.
ImageAfterLabel(text, e, p) ==
  IF e + 1 < Len(text) /\ text[e + 1] = "]" /\ text[e + 2] = "("
  THEN ImageHref(text, SubSeq(text, 3, e), p,
                 RunNotIn(Slice(text, p + 1), {"\n", "<", ">", "\\"}),
                 RunNotIn(Slice(text, p), {" ", "\t", "\n", "(", ")"}))
  ELSE NoImage

ImageLabelEnd(text) == 2 + RunNotIn(Slice(text, 2), {"[", "]", "\\"})

ImageMatch(text) ==
  IF Len(text) >= 2 /\ text[1] = "!" /\ text[2] = "["
  THEN ImageAfterLabel(text, ImageLabelEnd(text),
         ImageLabelEnd(text) + 2 + LeadingRun(Slice(text, ImageLabelEnd(text) + 2), " "))
  ELSE NoImage

\* ------------------------------------------------------------------ renderer
\* Inline rendering of a run of text without inline markup: with breaks on,
\* every line feed inside the text becomes <br>.
RECURSIVE JoinWithBreaks(_)
JoinWithBreaks(lines) ==
  IF Len(lines) = 1 THEN (IF lines[1] = <<>> THEN <<>> ELSE <<Text(lines[1])>>)
  ELSE (IF lines[1] = <<>> THEN <<>> ELSE <<Text(lines[1])>>)
       \o <<Open("br", NoAttribs)>> \o JoinWithBreaks(Tail(lines))

\* A mutant of parseInline: the breaks option is off.
parseInlineWithoutBreaks(text) == IF text = <<>> THEN <<>> ELSE <<Text(text)>>

PlainInline(text) == IF text = <<>> THEN <<>> ELSE JoinWithBreaks(Lines(text))

\* The inline tokens of a text, rendered: the images in it go through
\* renderer.image, the text between them is plain.
RECURSIVE InlineFrom(_, _)
InlineFrom(text, plain) ==
  IF text = <<>> THEN PlainInline(plain)
  ELSE IF Head(text) = "!" /\ ImageMatch(text).ok
  THEN PlainInline(plain) \o renderImage(ImageMatch(text).token)
       \o InlineFrom(Slice(text, ImageMatch(text).len), <<>>)
  ELSE InlineFrom(Tail(text), Append(plain, Head(text)))

parseInline(text) == InlineFrom(text, <<>>)

\* --------------------------------------------------------------- task lists
\* The glyphs of a checked and an unchecked item, each one character.
CheckedGlyph == <<"U+2705">>
UncheckedGlyph == <<"U+274C">>

\* The payload marked hands to renderer.checkbox.
CheckboxPayload(checked) == [checked |-> checked]

\* A mutant of renderCheckbox: marked's own rendering, a disabled input.
renderCheckboxAsInput(payload) ==
  <<Open("input", ObjectLiteral(
      { <<"type", <<"c", "h", "e", "c", "k", "b", "o", "x">>>>, <<"disabled", <<>>>> }
      \cup (IF payload.checked THEN {<<"checked", <<>>>>} ELSE {})))>>

\* renderer.checkbox (lines 203-208)
renderCheckbox(payload) ==
  << Open("span", ObjectLiteral(
       { <<"class", <<"t", "a", "s", "k", "-", "c", "h", "e", "c", "k", "b", "o", "x">>>>,
         <<"data-checked", IF payload.checked THEN <<"t", "r", "u", "e">> ELSE <<"f", "a", "l", "s", "e">>>>,
         <<"aria-hidden", <<"t", "r", "u", "e">>>> })),
     Text(IF payload.checked THEN CheckedGlyph ELSE UncheckedGlyph),
     Close("span") >>

\* Marked's list rule on a source whose every line is a bullet item "- ...":
\* an item whose contents start with [ ], [x] or [X] and a space is a task,
\* checked unless the mark is a space, and loses the mark.
IsTask(contents) ==
  /\ Len(contents) >= 4
  /\ contents[1] = "[" /\ contents[2] \in {" ", "x", "X"}
  /\ contents[3] = "]" /\ contents[4] = " "

ListItem(line) ==
  LET contents == Slice(line, 2)
  IN  IF IsTask(contents)
      THEN [task |-> TRUE, checked |-> contents[2] # " ",
            text |-> Slice(contents, 3 + LeadingRun(Slice(contents, 3), " "))]
      ELSE [task |-> FALSE, checked |-> FALSE, text |-> contents]

IsBullet(line) == Len(line) > 2 /\ line[1] = "-" /\ line[2] = " "

ListMatch(s) ==
  LET lines == Lines(s)
  IN  IF s # <<>> /\ \A i \in 1..Len(lines) : IsBullet(lines[i])
      THEN [ok |-> TRUE, len |-> Len(s),
            items |-> [i \in 1..Len(lines) |-> ListItem(lines[i])]]
      ELSE [ok |-> FALSE, len |-> 0, items |-> <<>>]

\* Marked's listitem for a tight item: the checkbox and a space before the
\* item's inline text.
RenderListItem(item) ==
  <<Open("li", NoAttribs)>>
  \o (IF item.task
      THEN renderCheckbox(CheckboxPayload(item.checked)) \o InlineFrom(item.text, <<" ">>)
      ELSE parseInline(item.text))
  \o <<Close("li")>>

RECURSIVE RenderListItems(_)
RenderListItems(items) ==
  IF items = <<>> THEN <<>>
  ELSE RenderListItem(Head(items)) \o RenderListItems(Tail(items))

RenderList(token) ==
  <<Open("ul", NoAttribs)>> \o RenderListItems(token.items) \o <<Close("ul")>>

\* ---------------------------------------------------------- definition list
\* Lines 167-169: the <dd> of one entry.
RECURSIVE RenderDescriptions(_)
RenderDescriptions(descriptions) ==
  IF descriptions = <<>> THEN <<>>
  ELSE <<Open("dd", NoAttribs)>> \o parseInline(Head(descriptions)) \o <<Close("dd")>>
       \o RenderDescriptions(Tail(descriptions))

\* A mutant of RenderItem: the definitions are emitted before their term.
RenderItemDefinitionsFirst(item) ==
  RenderDescriptions(item.descriptions)
  \o <<Open("dt", NoAttribs)>> \o parseInline(item.term) \o <<Close("dt")>>

\* Lines 164-170: one pass of the loop over the entries.
RenderItem(item) ==
  <<Open("dt", NoAttribs)>> \o parseInline(item.term) \o <<Close("dt")>>
  \o RenderDescriptions(item.descriptions)

RECURSIVE RenderItems(_)
RenderItems(items) ==
  IF items = <<>> THEN <<>> ELSE RenderItem(Head(items)) \o RenderItems(Tail(items))

\* definitionListExtension.renderer
RenderDefinitionList(token) ==
  <<Open("dl", NoAttribs)>> \o RenderItems(token.items) \o <<Close("dl")>>

\* The length of the leading run of non-whitespace characters: \S*
RECURSIVE NonSpaceRun(_)
NonSpaceRun(t) == IF t # <<>> /\ ~IsSpace(Head(t)) THEN 1 + NonSpaceRun(Tail(t)) ELSE 0

\* Array.join(' ')
RECURSIVE JoinTokens(_)
JoinTokens(tokens) ==
  IF tokens = <<>> THEN <<>>
  ELSE IF Len(tokens) = 1 THEN tokens[1]
  ELSE tokens[1] \o <<" ">> \o JoinTokens(Tail(tokens))

\* --------------------------------------------------------------- code blocks
Plaintext == <<"p", "l", "a", "i", "n", "t", "e", "x", "t">>
CodeBlockClass == <<"c", "o", "d", "e", "-", "b", "l", "o", "c", "k">>
CopyCode == <<"c", "o", "p", "y", "-", "c", "o", "d", "e">>

CODE_LANGUAGE_ALIASES ==
  ObjectLiteral({
    <<<<"j", "s">>, <<"j", "a", "v", "a", "s", "c", "r", "i", "p", "t">>>>, <<<<"j", "s", "x">>, <<"j", "a", "v", "a", "s", "c", "r", "i", "p", "t">>>>, <<<<"t", "s">>, <<"t", "y", "p", "e", "s", "c", "r", "i", "p", "t">>>>,
    <<<<"t", "s", "x">>, <<"t", "y", "p", "e", "s", "c", "r", "i", "p", "t">>>>, <<<<"s", "h">>, <<"b", "a", "s", "h">>>>, <<<<"s", "h", "e", "l", "l">>, <<"b", "a", "s", "h">>>>, <<<<"b", "a", "s", "h">>, <<"b", "a", "s", "h">>>>,
    <<<<"z", "s", "h">>, <<"b", "a", "s", "h">>>>, <<<<"p", "y">>, <<"p", "y", "t", "h", "o", "n">>>>, <<<<"p", "l", "a", "i", "n", "t", "e", "x", "t">>, <<"p", "l", "a", "i", "n", "t", "e", "x", "t">>>>,
    <<<<"t", "e", "x", "t">>, <<"p", "l", "a", "i", "n", "t", "e", "x", "t">>>>, <<<<"j", "s", "o", "n", "c">>, <<"j", "s", "o", "n">>>> })

LANGUAGE_LABELS ==
  ObjectLiteral({
    <<<<"j", "a", "v", "a", "s", "c", "r", "i", "p", "t">>, <<"J", "a", "v", "a", "S", "c", "r", "i", "p", "t">>>>, <<<<"t", "y", "p", "e", "s", "c", "r", "i", "p", "t">>, <<"T", "y", "p", "e", "S", "c", "r", "i", "p", "t">>>>, <<<<"b", "a", "s", "h">>, <<"B", "a", "s", "h">>>>,
    <<<<"p", "y", "t", "h", "o", "n">>, <<"P", "y", "t", "h", "o", "n">>>>, <<<<"h", "t", "m", "l">>, <<"H", "T", "M", "L">>>>, <<<<"c", "s", "s">>, <<"C", "S", "S">>>>, <<<<"j", "s", "o", "n">>, <<"J", "S", "O", "N">>>>,
    <<<<"s", "q", "l">>, <<"S", "Q", "L">>>>, <<<<"y", "a", "m", "l">>, <<"Y", "A", "M", "L">>>>, <<<<"m", "a", "r", "k", "d", "o", "w", "n">>, <<"M", "a", "r", "k", "d", "o", "w", "n">>>>,
    <<<<"p", "l", "a", "i", "n", "t", "e", "x", "t">>, <<"P", "l", "a", "i", "n", " ", "T", "e", "x", "t">>>> })

\* A mutant of FirstToken: the whole tag is the token.
FirstTokenWholeTag(base) == base

\* base.split(/\s+/)[0] for a trimmed, non-empty base
FirstToken(base) == Prefix(base, NonSpaceRun(base))

\* A mutant of AliasOrSelf: a token the table does not hold gives plaintext.
AliasOrPlaintext(firstToken) ==
  IF firstToken \in DOMAIN CODE_LANGUAGE_ALIASES
  THEN Str(CODE_LANGUAGE_ALIASES[firstToken]) ELSE Str(Plaintext)

\* CODE_LANGUAGE_ALIASES[firstToken] ?? firstToken (line 363)
AliasOrSelf(firstToken) ==
  LET found == Property(CODE_LANGUAGE_ALIASES, firstToken)
  IN  IF Nullish(found) THEN Str(firstToken) ELSE found

\* normalizeLanguage: value is a string or undefined
normalizeLanguage(value) ==
  LET base == ToLowerCase(Trim(IF Nullish(value) THEN <<>> ELSE value.text))
  IN  IF base = <<>> THEN Str(Plaintext) ELSE AliasOrSelf(FirstToken(base))

\* The length of the leading run of [-_]
RECURSIVE DashRun(_)
DashRun(t) == IF t # <<>> /\ Head(t) \in {"-", "_"} THEN 1 + DashRun(Tail(t)) ELSE 0

\* replace(/[-_]+/g, ' ')
RECURSIVE DashesToSpaces(_)
DashesToSpaces(t) ==
  IF t = <<>> THEN <<>>
  ELSE IF DashRun(t) > 0 THEN <<" ">> \o DashesToSpaces(Slice(t, DashRun(t)))
  ELSE <<Head(t)>> \o DashesToSpaces(Tail(t))

\* \w
IsWordChar(c) == c \in LowerLetters \cup UpperLetters \cup Digits \cup {"_"}

\* replace(/\b\w/g, toUpperCase): the first character of every word
CapitalizeWords(t) ==
  [i \in 1..Len(t) |->
     IF IsWordChar(t[i]) /\ (i = 1 \/ ~IsWordChar(t[i - 1])) THEN ToUpperCase(t[i]) ELSE t[i]]

\* getLanguageLabel: language is what normalizeLanguage returned.  A
\* function or an object has no replace method: the call throws.
getLanguageLabel(language) ==
  LET preset    == Property(LANGUAGE_LABELS, KeyOf(language))
      formatted == CapitalizeWords(DashesToSpaces(language.text))
  IN  IF Truthy(preset) THEN preset
      ELSE IF language.type # "string" THEN Thrown
      ELSE IF Len(formatted) > 0 THEN Str(formatted)
      ELSE Str(LANGUAGE_LABELS[Plaintext])

\* The grammars registered at lines 25-67, and the aliases those grammars
\* declare; hljs.getLanguage finds a grammar by either.
RegisteredLanguages ==
  {<<"b", "a", "s", "h">>, <<"c", "s", "s">>, <<"j", "a", "v", "a", "s", "c", "r", "i", "p", "t">>, <<"j", "s", "o", "n">>, <<"m", "a", "r", "k", "d", "o", "w", "n">>, <<"p", "l", "a", "i", "n", "t", "e", "x", "t">>, <<"p", "y", "t", "h", "o", "n">>, <<"s", "q", "l">>,
   <<"t", "y", "p", "e", "s", "c", "r", "i", "p", "t">>, <<"x", "m", "l">>, <<"y", "a", "m", "l">>}
GrammarAliases ==
  {<<"s", "h">>, <<"z", "s", "h">>, <<"j", "s">>, <<"j", "s", "x">>, <<"m", "j", "s">>, <<"c", "j", "s">>, <<"m", "d">>, <<"m", "k", "d", "o", "w", "n">>, <<"m", "k", "d">>, <<"t", "e", "x", "t">>, <<"t", "x", "t">>, <<"p", "y">>,
   <<"g", "y", "p">>, <<"i", "p", "y", "t", "h", "o", "n">>, <<"t", "s">>, <<"t", "s", "x">>, <<"m", "t", "s">>, <<"c", "t", "s">>, <<"h", "t", "m", "l">>, <<"x", "h", "t", "m", "l">>, <<"r", "s", "s">>, <<"a", "t", "o", "m">>, <<"x", "j", "b">>,
   <<"x", "s", "d">>, <<"x", "s", "l">>, <<"p", "l", "i", "s", "t">>, <<"w", "s", "f">>, <<"s", "v", "g">>, <<"y", "m", "l">>}

\* hljs.getLanguage(language) is not undefined
HasGrammar(language) == ToLowerCase(language) \in registry \cup GrammarAliases

\* The highlighter's own escaping of the source.
HljsEscape(value) ==
  ReplaceAll(ReplaceAll(ReplaceAll(ReplaceAll(ReplaceAll(value,
    "&", <<"&", "a", "m", "p", ";">>), "<", <<"&", "l", "t", ";">>), ">", <<"&", "g", "t", ";">>), "\"", <<"&", "q", "u", "o", "t", ";">>), "'", <<"&", "#", "x", "2", "7", ";">>)

\* result.value of hljs.highlight: the source escaped, inside the markup of
\* the grammar's scopes, which one span stands for.
Highlight(source) ==
  <<Open("span", "class" :> <<"h", "l", "j", "s", "-", "k", "e", "y", "w", "o", "r", "d">>), Text(HljsEscape(source)), Close("span")>>

None == [isNull |-> TRUE, value |-> <<>>]
Some(markup) == [isNull |-> FALSE, value |-> markup]

\* A mutant of HighlightOrNone: the exception is not caught by a fallback;
\* the markup is used whatever happened.
HighlightAlways(source, throws) == Some(Highlight(source))

\* Lines 379-384: try hljs.highlight, catch and return null
HighlightOrNone(source, throws) == IF throws THEN None ELSE Some(Highlight(source))

\* getHighlightedCode (lines 366-385); language is a string
getHighlightedCode(source, language) ==
  IF source = <<>> THEN None
  ELSE IF language = <<>> \/ language = Plaintext THEN None
  ELSE IF ~HasGrammar(language) THEN None
  ELSE HighlightOrNone(source, hljsThrows)

\* A mutant of CodeContent: the highlighter's markup is escaped again.
CodeContentEscapedTwice(highlighted, source) ==
  IF highlighted.isNull
  THEN (IF source = <<>> THEN <<>> ELSE <<Text(escapeHtml(source))>>)
  ELSE [i \in 1..Len(highlighted.value) |->
          [highlighted.value[i] EXCEPT !.text = escapeHtml(highlighted.value[i].text)]]

\* highlighted ?? escapeHtml(source) (line 191)
CodeContent(highlighted, source) ==
  IF highlighted.isNull
  THEN (IF source = <<>> THEN <<>> ELSE <<Text(escapeHtml(source))>>)
  ELSE highlighted.value

\* renderer.code throws when getLanguageLabel throws or hands escapeHtml a
\* value without a replace method, or when the language itself is no string.
renderCodeThrows(token) ==
  LET language == normalizeLanguage(token.lang)
  IN  \/ getLanguageLabel(language).type # "string"
      \/ language.type # "string"

\* renderer.code (lines 177-199) when it does not throw.  An attribute holds
\* what a parser reads from the escaped value written between the quotes.
renderCode(token) ==
  LET source            == token.text
      language          == normalizeLanguage(token.lang).text
      label             == escapeHtml(getLanguageLabel(Str(language)).text)
      languageAttribute == escapeHtml(language)
      highlighted       == getHighlightedCode(source, language)
      codeClasses       == IF language # <<>>
                           THEN <<<<"h", "l", "j", "s">>, <<"l", "a", "n", "g", "u", "a", "g", "e", "-">> \o language>> ELSE <<<<"h", "l", "j", "s">>>>
      classAttribute    == JoinTokens([i \in 1..Len(codeClasses) |-> escapeHtml(codeClasses[i])])
  IN  << Open("figure", ("class" :> CodeBlockClass
                          @@ "data-language" :> DecodeEntities(languageAttribute))),
         Open("figcaption", ("class" :> <<"c", "o", "d", "e", "-", "b", "l", "o", "c", "k", "_", "_", "h", "e", "a", "d", "e", "r">>)),
         Open("span", ("class" :> <<"c", "o", "d", "e", "-", "b", "l", "o", "c", "k", "_", "_", "l", "a", "n", "g">>)), Text(label), Close("span"),
         Open("button", ("type" :> <<"b", "u", "t", "t", "o", "n">> @@ "class" :> <<"c", "o", "d", "e", "-", "b", "l", "o", "c", "k", "_", "_", "c", "o", "p", "y">>
                          @@ "data-action" :> CopyCode)),
         Text(<<"c", "o", "p", "i", "a", "r">>), Close("button"),
         Close("figcaption"),
         Open("pre", ("class" :> <<"c", "o", "d", "e", "-", "b", "l", "o", "c", "k", "_", "_", "b", "o", "d", "y">>)),
         Open("code", ("class" :> DecodeEntities(classAttribute)
                        @@ "data-language" :> DecodeEntities(languageAttribute))) >>
      \o CodeContent(highlighted, source)
      \o <<Close("code"), Close("pre"), Close("figure")>>

\* The parser's dispatch on the token type; a paragraph is <p>inline</p>, an
\* html token is its own markup, a space token renders nothing.
RenderToken(token) ==
  CASE token.type = "definitionList" -> RenderDefinitionList(token)
    [] token.type = "code" -> renderCode(token)
    [] token.type = "list" -> RenderList(token)
    [] token.type = "paragraph" ->
         <<Open("p", NoAttribs)>> \o parseInline(token.text) \o <<Close("p")>>
    [] token.type = "html" -> token.items
    [] OTHER -> <<>>

RECURSIVE RenderTokens(_)
RenderTokens(tokens) ==
  IF tokens = <<>> THEN <<>> ELSE RenderToken(Head(tokens)) \o RenderTokens(Tail(tokens))


\* ------------------------------------------------------------ sanitize policy
\* sanitizeHtml.defaults.allowedTags
DefaultAllowedTags ==
  {"address", "article", "aside", "footer", "header", "h1", "h2", "h3", "h4",
   "h5", "h6", "hgroup", "main", "nav", "section", "blockquote", "dd", "div",
   "dl", "dt", "figcaption", "figure", "hr", "li", "ol", "p", "pre", "ul",
   "a", "abbr", "b", "bdi", "bdo", "br", "cite", "code", "data", "dfn", "em",
   "i", "kbd", "mark", "q", "rb", "rp", "rt", "rtc", "ruby", "s", "samp",
   "small", "span", "strong", "sub", "sup", "time", "u", "var", "wbr",
   "caption", "col", "colgroup", "table", "tbody", "td", "tfoot", "th",
   "thead", "tr"}

\* A mutant of allowedTags: script is let through.
allowedTagsWithScript ==
  DefaultAllowedTags \cup
  {"h1", "h2", "h3", "h4", "h5", "h6", "img", "pre", "code", "blockquote",
   "hr", "table", "thead", "tbody", "tr", "th", "td", "figure", "figcaption",
   "span", "button", "dl", "dt", "dd", "del", "s", "details", "summary", "script"}

allowedTags ==
  DefaultAllowedTags \cup
  {"h1", "h2", "h3", "h4", "h5", "h6", "img", "pre", "code", "blockquote",
   "hr", "table", "thead", "tbody", "tr", "th", "td", "figure", "figcaption",
   "span", "button", "dl", "dt", "dd", "del", "s", "details", "summary"}

\* A mutant of allowedAttributes: data-language is not listed for code.
allowedAttributesCodeClassOnly(tag) ==
  CASE tag = "a" -> {"href", "name", "target", "rel", "title"}
    [] tag = "img" -> {"src", "alt", "title", "width", "height", "class", "loading",
                       "decoding", "referrerpolicy", "fetchpriority", "srcset", "sizes"}
    [] tag = "figure" -> {"class", "data-language"}
    [] tag = "figcaption" -> {"class"}
    [] tag = "pre" -> {"class"}
    [] tag = "code" -> {"class"}
    [] tag = "span" -> {"class", "aria-hidden", "data-checked"}
    [] tag = "button" -> {"type", "class", "data-action", "data-state"}
    [] tag = "ul" -> {"class"}
    [] tag = "li" -> {"class"}
    [] OTHER -> {}

\* allowedAttributes: the library's defaults name only a and img, and both
\* are replaced here; a tag without an entry keeps no attribute.
allowedAttributes(tag) ==
  CASE tag = "a" -> {"href", "name", "target", "rel", "title"}
    [] tag = "img" -> {"src", "alt", "title", "width", "height", "class", "loading",
                       "decoding", "referrerpolicy", "fetchpriority", "srcset", "sizes"}
    [] tag = "figure" -> {"class", "data-language"}
    [] tag = "figcaption" -> {"class"}
    [] tag = "pre" -> {"class"}
    [] tag = "code" -> {"class", "data-language"}
    [] tag = "span" -> {"class", "aria-hidden", "data-checked"}
    [] tag = "button" -> {"type", "class", "data-action", "data-state"}
    [] tag = "ul" -> {"class"}
    [] tag = "li" -> {"class"}
    [] OTHER -> {}

Http == <<"h", "t", "t", "p">>
Https == <<"h", "t", "t", "p", "s">>
Mailto == <<"m", "a", "i", "l", "t", "o">>
Data == <<"d", "a", "t", "a">>
Javascript == <<"j", "a", "v", "a", "s", "c", "r", "i", "p", "t">>

\* A mutant of allowedSchemes: javascript is let through.
allowedSchemesWithJavascript == {Http, Https, Mailto, Javascript}

allowedSchemes == {Http, Https, Mailto}

\* allowedSchemesByTag: the tags with a list of their own, and that list.
SchemesByTagKeys == {"img"}
allowedSchemesByTag(tag) == {Http, Https, Data}

\* ------------------------------------------------------------ URL handling
\* The characters of code 32 and below that a value can hold.
IsControlOrSpace(c) == c \in {" ", "\t", "\n", "\r", "\f"}

\* The leading run of scheme characters, [a-zA-Z0-9.\-+]*
RECURSIVE SchemeRun(_)
SchemeRun(t) ==
  IF t # <<>> /\ Head(t) \in LowerLetters \cup UpperLetters \cup Digits \cup {".", "-", "+"}
  THEN 1 + SchemeRun(Tail(t)) ELSE 0

\* The scheme /^([a-zA-Z][a-zA-Z0-9.\-+]*):/ finds in t, lower-cased, or the
\* empty text when t has none.
SchemeIn(t) ==
  LET n == SchemeRun(t)
  IN  IF t # <<>> /\ Head(t) \in LowerLetters \cup UpperLetters /\ n < Len(t) /\ t[n + 1] = ":"
      THEN ToLowerCase(Prefix(t, n))
      ELSE <<>>

\* href.replace(/[\x00-\x20]+/g, '')
StripControls(t) == SelectSeq(t, LAMBDA c : ~IsControlOrSpace(c))

\* The sanitizer's test of an href, src or cite value (naughtyHref) under
\* these options: the value is refused when the scheme it carries, read
\* after every character of code 32 and below is removed, is not allowed for
\* the tag.  A value without a scheme, protocol-relative ones included
\* (allowProtocolRelative is on by default), is kept.
naughtyHref(tag, value) ==
  LET scheme == SchemeIn(StripControls(value))
  IN  IF scheme = <<>> THEN FALSE
      ELSE IF tag \in SchemesByTagKeys THEN scheme \notin allowedSchemesByTag(tag)
      ELSE scheme \notin allowedSchemes

\* /^https?:\/\//i.test(href)
isExternal(href) ==
  LET l == ToLowerCase(href)
  IN  \/ Len(l) >= 7 /\ Prefix(l, 7) = <<"h", "t", "t", "p", ":", "/", "/">>
      \/ Len(l) >= 8 /\ Prefix(l, 8) = <<"h", "t", "t", "p", "s", ":", "/", "/">>


\* ------------------------------------------------------------ anchor transform
Noopener == <<"n", "o", "o", "p", "e", "n", "e", "r">>
Noreferrer == <<"n", "o", "r", "e", "f", "e", "r", "r", "e", "r">>
BlankTarget == <<"_", "b", "l", "a", "n", "k">>

\* rel.split(/\s+/).map(trim).filter(Boolean): the whitespace-separated
\* tokens of a rel value, in order.
RECURSIVE SplitTokens(_)
SplitTokens(t) ==
  LET rest == TrimStart(t)
      n    == NonSpaceRun(rest)
  IN  IF rest = <<>> THEN <<>>
      ELSE <<Prefix(rest, n)>> \o SplitTokens(Slice(rest, n))

\* new Set(tokens), in insertion order
RECURSIVE Distinct(_)
Distinct(tokens) ==
  IF tokens = <<>> THEN <<>>
  ELSE LET init == Distinct(Prefix(tokens, Len(tokens) - 1))
           last == tokens[Len(tokens)]
       IN  IF \E i \in 1..Len(init) : init[i] = last THEN init ELSE Append(init, last)

AttrOr(attribs, name, default) == IF name \in DOMAIN attribs THEN attribs[name] ELSE default

\* Lines 332-339: the rel of an external anchor.
NextRel(attribs) ==
  JoinTokens(Distinct(SplitTokens(AttrOr(attribs, "rel", <<>>)) \o <<Noopener, Noreferrer>>))

\* A mutant of transformA: the two tokens are appended without the Set.
transformAAppendsRel(attribs) ==
  IF isExternal(AttrOr(attribs, "href", <<>>))
  THEN [n \in DOMAIN attribs \cup {"rel", "target"} |->
          IF n = "rel"
          THEN JoinTokens(SplitTokens(AttrOr(attribs, "rel", <<>>)) \o <<Noopener, Noreferrer>>)
          ELSE IF n = "target" /\ AttrOr(attribs, "target", <<>>) = <<>> THEN BlankTarget
          ELSE attribs[n]]
  ELSE attribs

\* A mutant of transformA: every anchor is treated as external.
transformAEveryAnchor(attribs) ==
  [n \in DOMAIN attribs \cup {"rel", "target"} |->
     IF n = "rel" THEN NextRel(attribs)
     ELSE IF n = "target" /\ AttrOr(attribs, "target", <<>>) = <<>> THEN BlankTarget
     ELSE attribs[n]]

\* A mutant of transformA: an author's rel is kept as it is.
transformAKeepsAuthorRel(attribs) ==
  IF isExternal(AttrOr(attribs, "href", <<>>))
  THEN [n \in DOMAIN attribs \cup {"rel", "target"} |->
          IF n = "rel" THEN (IF "rel" \in DOMAIN attribs THEN attribs.rel ELSE NextRel(attribs))
          ELSE IF n = "target" /\ AttrOr(attribs, "target", <<>>) = <<>> THEN BlankTarget
          ELSE attribs[n]]
  ELSE attribs

\* transformTags.a (lines 326-349): the attributes of the rewritten anchor.
transformA(attribs) ==
  IF isExternal(AttrOr(attribs, "href", <<>>))
  THEN [n \in DOMAIN attribs \cup {"rel", "target"} |->
          IF n = "rel" THEN NextRel(attribs)
          ELSE IF n = "target" /\ AttrOr(attribs, "target", <<>>) = <<>> THEN BlankTarget
          ELSE attribs[n]]
  ELSE attribs

\* ------------------------------------------------------------------ sanitizer
\* Tags whose text is dropped with them (the library's nonTextTags).
NonTextTags == {"script", "style", "textarea", "option"}

\* The attributes of an allowed tag that the sanitizer keeps: the allowed
\* names, minus an href, src or cite whose scheme is refused.
FilterAttribs(tag, attribs) ==
  LET kept == {n \in DOMAIN attribs :
                 /\ n \in allowedAttributes(tag)
                 /\ ~(n \in {"href", "src", "cite"} /\ naughtyHref(tag, attribs[n]))}
  IN  [n \in kept |-> attribs[n]]

\* The sanitizer writes a text run escaped anew.
EscapeText(t) == ReplaceAll(ReplaceAll(ReplaceAll(t, "&", <<"&", "a", "m", "p", ";">>), "<", <<"&", "l", "t", ";">>), ">", <<"&", "g", "t", ";">>)

\* sanitizeHtml(html, options) over the fragment's tags and text runs; stack
\* holds, per open element, whether it was discarded and whether it drops
\* its text.  An anchor is rewritten by transformTags before it is filtered.
RECURSIVE SanitizeFrom(_, _)
SanitizeFrom(nodes, stack) ==
  IF nodes = <<>> THEN <<>>
  ELSE LET node     == Head(nodes)
           skipText == \E i \in 1..Len(stack) : stack[i].skipText
           attribs  == IF node.tag = "a" THEN transformA(node.attribs) ELSE node.attribs
           discard  == skipText \/ node.tag \notin allowedTags
           frame    == [skip |-> discard,
                        skipText |-> skipText \/ (discard /\ node.tag \in NonTextTags)]
       IN  CASE node.k = "open" ->
                  (IF discard THEN <<>> ELSE <<Open(node.tag, FilterAttribs(node.tag, attribs))>>)
                  \o SanitizeFrom(Tail(nodes),
                       IF node.tag \in VoidTags THEN stack ELSE <<frame>> \o stack)
             [] node.k = "close" ->
                  (IF stack # <<>> /\ ~Head(stack).skip THEN <<node>> ELSE <<>>)
                  \o SanitizeFrom(Tail(nodes), IF stack = <<>> THEN stack ELSE Tail(stack))
             [] OTHER ->
                  (IF skipText THEN <<>>
                   ELSE <<Text(EscapeText(DecodeEntities(node.text)))>>)
                  \o SanitizeFrom(Tail(nodes), stack)

sanitizeHtml(html) == SanitizeFrom(html, <<>>)


\* --------------------------------------------------------------- the inputs
\* Most lines of a source built from whole lines.
MaxLines == 5

\* Every text of at most MaxLen characters.
Texts == UNION {[1..n -> Alphabet] : n \in 0..MaxLen}

\* Sources built from whole lines: a term, a definition, a bare marker, an
\* empty line and a line holding one space.
LinePool == {<<"a">>, <<":", " ", "b">>, <<":">>, <<>>, <<" ">>}

RECURSIVE JoinLines(_)
JoinLines(lines) ==
  IF Len(lines) = 1 THEN lines[1] ELSE lines[1] \o <<"\n">> \o JoinLines(Tail(lines))

LineTexts == UNION {{JoinLines(ls) : ls \in [1..n -> LinePool]} : n \in 1..MaxLines}

\* The sources the specification quotes.
TermNotADefinition == <<"T", "e", "r", "m", "\n", "N", "o", "t", " ", "a", " ", "d", "e", "f", "i", "n", "i", "t", "i", "o", "n">>
TermTwoDefinitions == <<"T", "e", "r", "m", "\n", ":", " ", "F", "i", "r", "s", "t", " ", "d", "e", "f", "\n", ":", " ", "S", "e", "c", "o", "n", "d", " ", "d", "e", "f">>

TwoEntries == <<"a", "\n", ":", " ", "b", "\n", "\n", "c", "\n", ":", " ", "d">>
BareMarkerThenDefinition == <<"T", "e", "r", "m", "\n", ":", "\n", ":", " ", "S", "e", "c", "o", "n", "d", " ", "d", "e", "f">>

\* Raw HTML an author can embed: Marked passes it to the output as it is.
Element(tag, attribs, text) ==
  IF tag \in VoidTags THEN <<Open(tag, attribs)>>
  ELSE <<Open(tag, attribs), Text(text), Close(tag)>>

HrefPool ==
  {<<"h", "t", "t", "p", "s", ":", "/", "/", "e">>, <<"H", "T", "T", "P", ":", "/", "/", "e">>, <<" ", "h", "t", "t", "p", "s", ":", "/", "/", "e">>, <<"h", "t", "\n", "t", "p", "s", ":", "/", "/", "e">>, <<"/", "/", "e">>, <<"/", "p">>, <<>>,
   <<"m", "a", "i", "l", "t", "o", ":", "m">>, <<"j", "a", "v", "a", "s", "c", "r", "i", "p", "t", ":", "x">>, <<"J", "a", "V", "a", "S", "c", "R", "i", "P", "t", ":", "x">>, <<"j", "a", "v", "a", "\t", "s", "c", "r", "i", "p", "t", ":", "x">>, <<" ", "j", "a", "v", "a", "s", "c", "r", "i", "p", "t", ":", "x">>, <<"d", "a", "t", "a", ":", "x">>}

RelPool == {NoAttribs, "rel" :> <<"n", "o", "o", "p", "e", "n", "e", "r">>,
            "rel" :> <<" ", "u", "g", "c", " ", " ", "n", "o", "r", "e", "f", "e", "r", "r", "e", "r", " ", "u", "g", "c">>}

TargetPool == {NoAttribs, "target" :> <<"_", "s", "e", "l", "f">>}

Anchors ==
  {Element("a", ("href" :> h) @@ r @@ t, <<"x">>) : h \in HrefPool, r \in RelPool, t \in TargetPool}

SrcPool == {<<"h", "t", "t", "p", "s", ":", "/", "/", "e", "/", "i">>, <<"d", "a", "t", "a", ":", "x">>, <<"D", "A", "T", "A", ":", "x">>, <<"m", "a", "i", "l", "t", "o", ":", "m">>, <<"j", "a", "v", "a", "s", "c", "r", "i", "p", "t", ":", "x">>, <<" ", "j", "a", "v", "a", "s", "c", "r", "i", "p", "t", ":", "x">>, <<"/", "i">>}

Images ==
  {Element("img", ("src" :> u) @@ x, <<>>) : u \in SrcPool, x \in {NoAttribs, "onerror" :> <<"x">>}}

OtherElements ==
  { Element("script", NoAttribs, <<"x">>),
    Element("style", NoAttribs, <<"x">>),
    Element("iframe", "src" :> <<"h", "t", "t", "p", "s", ":", "/", "/", "e">>, <<"x">>),
    Element("span", ("class" :> <<"c">>) @@ ("onclick" :> <<"x">>) @@ ("style" :> <<"x">>), <<"x">>),
    Element("div", "id" :> <<"i">>, <<"x">>),
    Element("p", "onmouseover" :> <<"x">>, <<"x">>),
    Element("button", ("type" :> <<"s", "u", "b", "m", "i", "t">>) @@ ("onclick" :> <<"x">>), <<"x">>),
    Element("a", ("name" :> <<"n">>) @@ ("onclick" :> <<"x">>), <<"x">>),
    Element("details", "open" :> <<>>, <<"x">>) }

ElementPool == Anchors \cup Images \cup OtherElements

\* An HTML block: a <div> holding the author's elements.
RawFragments ==
  UNION {{<<Open("div", NoAttribs)>> \o Concat(es) \o <<Close("div")>> :
            es \in [1..n -> ElementPool]} : n \in 1..MaxRaw}

\* A call of renderMarkdown: the argument is a string or not; a string is
\* markdown text, followed or not by a block of raw HTML.
StringInput(text, rawHtml) == [isString |-> TRUE, text |-> text, rawHtml |-> rawHtml]
NonString == [isString |-> FALSE, text |-> <<>>, rawHtml |-> <<>>]

\* Fenced code blocks.  Most modifier words after the language tag of a fence.
MaxModifiers == 1

\* The first words of the tags: the keys of the alias table, names with and
\* without a grammar or a label, names an object literal inherits, and names
\* that hold characters HTML escapes or the label rewrites.
FirstWords ==
  DOMAIN CODE_LANGUAGE_ALIASES
  \cup {<<"p", "y", "t", "h", "o", "n">>, <<"h", "t", "m", "l">>, <<"r", "u", "s", "t">>, <<"c", "o", "n", "s", "t", "r", "u", "c", "t", "o", "r">>, <<"_", "_", "p", "r", "o", "t", "o", "_", "_">>, <<"a", "<", "b", "\"", "c">>, <<"m", "y", "-", "l", "a", "n", "g", "_", "x">>}

UpperCased(t) == [i \in 1..Len(t) |-> ToUpperCase(t[i])]

RECURSIVE WithModifiers(_, _)
WithModifiers(t, k) == IF k = 0 THEN t ELSE WithModifiers(t, k - 1) \o <<" ", "t", "i", "t", "l", "e">>

Tags ==
  {<<>>, <<" ">>, <<" ", " ">>}
  \cup {WithModifiers(w, k) : w \in FirstWords \cup {UpperCased(x) : x \in FirstWords},
                              k \in 0..MaxModifiers}

Bodies == {<<>>, <<"x">>, <<"a", "<", "b">>, <<"&", "l", "t", ";">>, <<"\"", "q", "'", "&", ">">>}

Fence(tag, body) == <<"~", "~", "~">> \o tag \o <<"\n">> \o body \o <<"\n">> \o <<"~", "~", "~">>

CodeSources == {Fence(tag, body) : tag \in Tags, body \in Bodies}

Quoted == {TermNotADefinition, TermTwoDefinitions, TwoEntries, BareMarkerThenDefinition}

\* Images: ![alt](href "title") with the alt, href and title markup below.
AltPool == {<<>>, <<"a">>, <<" ", "a", " ">>, <<"a", "\"", "<", "b">>}
HrefMarkupPool == {<<"u">>, <<"<", " ", "u", " ", ">">>, <<"h", "t", "t", "p", "s", ":", "/", "/", "e", "/", "i">>, <<"j", "a", "v", "a", "s", "c", "r", "i", "p", "t", ":", "x">>}
TitleMarkupPool == {<<>>, <<" ", "\"", "t", "\"">>, <<" ", "\"", " ", "t", " ", "\"">>, <<" ", "\"", "\"">>}
ImageSource(alt, href, title) == <<"!", "[">> \o alt \o <<"]", "(">> \o href \o title \o <<")">>
ImageSources ==
  {ImageSource(a, h, t) : a \in AltPool, h \in HrefMarkupPool, t \in TitleMarkupPool}

\* Lists: one or two bullet items, tasks checked and unchecked among them.
ItemPool == {<<"-", " ", "[", "x", "]", " ", "a">>, <<"-", " ", "[", " ", "]", " ", "a">>, <<"-", " ", "[", "X", "]", " ", "a">>, <<"-", " ", "a">>, <<"-", " ", "[", "x", "]">>}
ListSources ==
  ItemPool \cup {a \o <<"\n">> \o b : a \in ItemPool, b \in ItemPool}

Inputs ==
  {NonString}
  \cup {StringInput(t, <<>>) : t \in Texts \cup LineTexts \cup Quoted \cup CodeSources \cup ImageSources
                                    \cup ListSources}
  \cup {StringInput(<<>>, h) : h \in RawFragments}

\* ---------------------------------------------------------------- the state
VARIABLES
  input,                \* the argument of the call
  pc,                   \* where the call stands
  src,                  \* the lexer's remaining source
  tokens,               \* the block tokens lexed so far
  lastParagraphClipped, \* the lexer's flag of that name
  ext,                  \* the last call of the extension's tokenizer
  html,                 \* markdown.parse's result
  output,               \* the value returned
  invoked,              \* the stages that have run in this call
  calls,                \* how many calls of renderMarkdown have begun
  returned              \* what the call before this one returned

\* The page (public/script.js).
VARIABLES
  authState,            \* authState.authenticated
  composeModal,         \* composeModal.dataset.open = 'true'
  loginModal,           \* loginModal.dataset.open = 'true'
  composeContent,       \* the value of the compose form's content field
  previewSessions,      \* the preview session of the content field
  composePreview,       \* the preview pane: its state and whose HTML it shows
  previewRequests,      \* the POST /posts/preview requests in flight
  started,              \* how many preview requests have been started
  filters,              \* filters.query
  searchDebounceId,     \* whether the search debounce timer is pending
  loading,              \* refreshPosts' flag of that name
  postsRequest,         \* the GET /posts request in flight
  refreshRetry,         \* the attempt a pending retry timer will make
  postList              \* the term whose results the list shows

\* The posts router and the posts table behind it.
VARIABLES
  posts,                \* the rows of the posts table, by id
  nextId,               \* the next value of the table's bigserial id
  request,              \* the request handled last
  response              \* the answer to it

renderVars ==
  <<input, pc, src, tokens, lastParagraphClipped, ext, html, output, invoked,
    hljsThrows, registry, calls, returned>>
composeVars ==
  <<authState, composeModal, loginModal, composeContent, previewSessions,
    composePreview, previewRequests, started>>
searchVars ==
  <<filters, searchDebounceId, loading, postsRequest, refreshRetry, postList>>
pageVars == <<composeVars, searchVars>>
routerVars == <<posts, nextId, request, response>>

vars == <<renderVars, pageVars, routerVars>>

NoCall == [called |-> FALSE, src |-> <<>>, token |-> Undefined]
ExtCall(s) == [called |-> TRUE, src |-> s, token |-> tokenizer(s)]

NoReturn == [outcome |-> "none", html |-> <<>>]

\* The page as script.js leaves it once loaded, before any event.
\* No session in previewSessions: no timer, and no controller (0).
NoSession == [exists |-> FALSE, debounceId |-> FALSE, trimmed |-> <<>>, abortController |-> 0]
\* The preview pane: its data-state, the request whose HTML the content
\* element holds (0: none) and the request that set the state (0: none).
EmptyPreview == [state |-> "empty", html |-> 0, by |-> 0]
NoPostsRequest == [sent |-> FALSE, term |-> <<>>, attempt |-> 0]
MAX_REFRESH_ATTEMPTS == 3
NoRetries == [n \in 2..MAX_REFRESH_ATTEMPTS |-> 0]
\* The list before any refresh has rendered.
NoList == <<"-">>
PageInit ==
  /\ authState = FALSE
  /\ composeModal = FALSE
  /\ loginModal = FALSE
  /\ composeContent = <<>>
  /\ previewSessions = NoSession
  /\ composePreview = EmptyPreview
  /\ previewRequests = {}
  /\ started = 0
  /\ filters = <<>>
  /\ searchDebounceId = FALSE
  /\ loading = FALSE
  /\ postsRequest = NoPostsRequest
  /\ refreshRetry = NoRetries
  /\ postList = NoList

\* The router before any request, over an empty posts table.
NoCookie == [present |-> FALSE, parts |-> 0, signed |-> FALSE, payload |-> "none"]
NoPayload == [object |-> FALSE, title |-> JsUndefined, content |-> JsUndefined]
NoBody == [json |-> FALSE, text |-> "empty", payload |-> NoPayload]
NoRequest ==
  [method |-> "none", path |-> "none", segment |-> <<>>,
   cookie |-> NoCookie, body |-> NoBody]
Answer(status, error, bodyRead, rendered, post, listed) ==
  [status |-> status, error |-> error, bodyRead |-> bodyRead,
   rendered |-> rendered, post |-> post, listed |-> listed]
NoResponse == Answer(0, "", FALSE, FALSE, 0, {})
RouterInit ==
  /\ posts = <<>>
  /\ nextId = 1
  /\ request = NoRequest
  /\ response = NoResponse

Init ==
  /\ PageInit
  /\ RouterInit
  /\ registry = RegisteredLanguages
  /\ calls = 1
  /\ returned = NoReturn
  /\ input \in Inputs
  /\ pc \in {"start", "unit"}
  /\ pc = "unit" => input.isString /\ input.rawHtml = <<>>
  /\ src = <<>>
  /\ tokens = <<>>
  /\ lastParagraphClipped = FALSE
  /\ ext = NoCall
  /\ html = <<>>
  /\ output = <<>>
  /\ invoked = {}
  /\ hljsThrows \in BOOLEAN
  /\ hljsThrows => pc = "start" /\ input.isString /\ FencesMatch(input.text).ok

\* The tokenizer called on its own with a source.
TokenizerCall ==
  /\ pc = "unit"
  /\ ext' = ExtCall(input.text)
  /\ invoked' = invoked \cup {"tokenizer"}
  /\ pc' = "unitDone"
  /\ UNCHANGED <<input, src, tokens, lastParagraphClipped, html, output, hljsThrows, registry, calls, returned,
               pageVars, routerVars>>

\* A mutant of IsEmptySource: the source is not trimmed.
IsEmptySourceUntrimmed(in) == ~in.isString \/ (in.text = <<>> /\ in.rawHtml = <<>>)

\* Lines 309-311: source is '' for a non-string, and !source.trim().
IsEmptySource(in) == ~in.isString \/ (Trim(in.text) = <<>> /\ in.rawHtml = <<>>)

\* Lines 311-313
ReturnEmpty ==
  /\ pc = "start"
  /\ IsEmptySource(input)
  /\ output' = <<>>
  /\ pc' = "done"
  /\ UNCHANGED <<input, src, tokens, lastParagraphClipped, ext, html, invoked, hljsThrows, registry, calls, returned,
               pageVars, routerVars>>

\* The lexer of the call before, were markdown.parse to keep one.
SharedLexerTokens == tokens

\* markdown.parse makes a Lexer of its own for each source.
NewLexerTokens == <<>>

\* Line 315: markdown.parse starts lexing the source.
BeginParse ==
  /\ pc = "start"
  /\ ~IsEmptySource(input)
  /\ src' = input.text
  /\ tokens' = NewLexerTokens
  /\ lastParagraphClipped' = FALSE
  /\ pc' = "lex"
  /\ UNCHANGED <<input, ext, html, output, invoked, hljsThrows, registry, calls, returned,
               pageVars, routerVars>>

LastType == IF tokens = <<>> THEN "none" ELSE tokens[Len(tokens)].type

\* tokens with raw (and text) added to the last one
ExtendLast(raw, text) ==
  LET last == tokens[Len(tokens)]
  IN  [tokens EXCEPT ![Len(tokens)] =
         [last EXCEPT !.raw = last.raw \o raw,
                      !.text = IF text = <<>> THEN last.text
                               ELSE last.text \o <<"\n">> \o text]]

\* One pass of the block lexer's loop: the extension is tried first, and
\* ext'.token is what it returned.
LexCommon ==
  /\ pc = "lex"
  /\ src # <<>>
  /\ ext' = ExtCall(src)
  /\ invoked' = invoked \cup {"tokenizer"}
  /\ UNCHANGED <<input, html, output, pc, hljsThrows, registry, calls, returned,
               pageVars, routerVars>>

LexExtension ==
  /\ LexCommon
  /\ ext'.token # Undefined
  /\ tokens' = Append(tokens, ext'.token)
  /\ src' = Slice(src, Len(ext'.token.raw))
  /\ UNCHANGED lastParagraphClipped

LexSpace ==
  /\ LexCommon
  /\ ext'.token = Undefined
  /\ SpaceMatch(src) > 0
  /\ tokens' = IF SpaceMatch(src) = 1 /\ tokens # <<>>
               THEN ExtendLast(<<"\n">>, <<>>)
               ELSE Append(tokens, BlockToken("space", Prefix(src, SpaceMatch(src)), <<>>))
  /\ src' = Slice(src, SpaceMatch(src))
  /\ UNCHANGED lastParagraphClipped

\* An indented code block cannot interrupt a paragraph: it is added to it.
LexCode ==
  /\ LexCommon
  /\ ext'.token = Undefined
  /\ SpaceMatch(src) = 0
  /\ CodeMatch(src) > 0
  /\ LET raw == Prefix(src, CodeMatch(src))
     IN  tokens' = IF LastType = "paragraph"
                   THEN ExtendLast(<<"\n">> \o raw, StripLineFeeds(Unindent(raw, TRUE)))
                   ELSE Append(tokens, CodeToken(raw, StripLineFeeds(Unindent(raw, TRUE)), JsUndefined))
  /\ src' = Slice(src, CodeMatch(src))
  /\ UNCHANGED lastParagraphClipped

\* A fenced code block: lang is the info string, trimmed.
LexFences ==
  /\ LexCommon
  /\ ext'.token = Undefined
  /\ SpaceMatch(src) = 0
  /\ CodeMatch(src) = 0
  /\ FencesMatch(src).ok
  /\ LET cap == FencesMatch(src)
     IN  /\ tokens' = Append(tokens, CodeToken(Prefix(src, cap.len), cap.text,
                                               Str(Trim(cap.info))))
         /\ src' = Slice(src, cap.len)
  /\ UNCHANGED lastParagraphClipped

\* A list: every remaining line is a bullet item.
LexList ==
  /\ LexCommon
  /\ ext'.token = Undefined
  /\ SpaceMatch(src) = 0
  /\ CodeMatch(src) = 0
  /\ ~FencesMatch(src).ok
  /\ ListMatch(src).ok
  /\ tokens' = Append(tokens, [type |-> "list", raw |-> src, text |-> <<>>,
                               items |-> ListMatch(src).items])
  /\ src' = <<>>
  /\ UNCHANGED lastParagraphClipped

LexParagraph ==
  /\ LexCommon
  /\ ext'.token = Undefined
  /\ SpaceMatch(src) = 0
  /\ CodeMatch(src) = 0
  /\ ~FencesMatch(src).ok
  /\ ~ListMatch(src).ok
  /\ LET cutSrc == CutSrc(src)
         raw    == Prefix(cutSrc, ParagraphMatch(cutSrc))
     IN  /\ tokens' = IF lastParagraphClipped /\ LastType = "paragraph"
                      THEN ExtendLast(<<"\n">> \o raw, StripLineFeeds(raw))
                      ELSE Append(tokens, BlockToken("paragraph", raw, StripLineFeeds(raw)))
         /\ lastParagraphClipped' = (Len(cutSrc) # Len(src))
         /\ src' = Slice(src, Len(raw))

HtmlPending == input.rawHtml # <<>> /\ LastType # "html"

\* The raw HTML block becomes an html token holding the markup itself.
LexHtml ==
  /\ pc = "lex"
  /\ src = <<>>
  /\ HtmlPending
  /\ tokens' = Append(tokens, [type |-> "html", raw |-> <<>>, text |-> <<>>,
                               items |-> input.rawHtml])
  /\ UNCHANGED <<input, pc, src, lastParagraphClipped, ext, html, output, invoked, hljsThrows, registry, calls, returned,
               pageVars, routerVars>>

\* The end of markdown.parse: the tokens are rendered; a code token goes
\* through renderCode, which calls the highlighter.
\* The code tokens among the tokens lexed.
CodeTokens == {i \in 1..Len(tokens) : tokens[i].type = "code"}

\* renderer.code throws: markdown.parse and with it the call ends in the
\* exception, before the highlighter is reached.
RenderThrows ==
  /\ pc = "lex"
  /\ src = <<>>
  /\ ~HtmlPending
  /\ \E i \in CodeTokens : renderCodeThrows(tokens[i])
  /\ pc' = "thrown"
  /\ UNCHANGED <<input, src, tokens, lastParagraphClipped, ext, html, output, invoked, hljsThrows, registry, calls, returned,
               pageVars, routerVars>>

Render ==
  /\ pc = "lex"
  /\ src = <<>>
  /\ ~HtmlPending
  /\ \A i \in CodeTokens : ~renderCodeThrows(tokens[i])
  /\ html' = RenderTokens(tokens)
  /\ invoked' = invoked \cup
       (IF \E i \in 1..Len(tokens) : tokens[i].type = "code" THEN {"highlighter"} ELSE {})
  /\ pc' = "sanitize"
  /\ UNCHANGED <<input, src, tokens, lastParagraphClipped, ext, output, hljsThrows, registry, calls, returned,
               pageVars, routerVars>>

\* A mutant of ReturnValue: the rendered HTML is returned unsanitized.
ReturnValueUnsanitized(h) == h

\* Lines 318-351: the value renderMarkdown returns for rendered HTML h.
ReturnValue(h) == sanitizeHtml(h)

Sanitize ==
  /\ pc = "sanitize"
  /\ output' = ReturnValue(html)
  /\ invoked' = invoked \cup {"sanitizer"}
  /\ pc' = "done"
  /\ UNCHANGED <<input, src, tokens, lastParagraphClipped, ext, html, hljsThrows, registry, calls, returned,
               pageVars, routerVars>>

Next ==
  \/ TokenizerCall
  \/ ReturnEmpty
  \/ BeginParse
  \/ LexExtension
  \/ LexSpace
  \/ LexCode
  \/ LexFences
  \/ LexList
  \/ LexParagraph
  \/ LexHtml
  \/ RenderThrows
  \/ Render
  \/ Sanitize

Spec == Init /\ [][Next]_vars

\* renderMarkdown is called once more with the text of the call before; the
\* highlighter, a function of its arguments and of the registry, fails on the
\* same sources as before.
MaxCalls == 2
CallAgain ==
  /\ pc \in {"done", "thrown"}
  /\ input.isString
  /\ calls < MaxCalls
  /\ calls' = calls + 1
  /\ returned' = [outcome |-> pc, html |-> output]
  /\ pc' = "start"
  /\ ext' = NoCall
  /\ html' = <<>>
  /\ output' = <<>>
  /\ invoked' = {}
  /\ UNCHANGED <<input, src, tokens, lastParagraphClipped, hljsThrows, registry,
               pageVars, routerVars>>

NextCalls == Next \/ CallAgain

SpecCalls == Init /\ [][NextCalls]_vars

\* ================================================== the page: script.js
\* The render, called by nobody while the page or the router is looked at.
RenderIdle ==
  /\ registry = RegisteredLanguages
  /\ hljsThrows = FALSE
  /\ calls = 1
  /\ returned = NoReturn
  /\ input = NonString
  /\ pc = "idle"
  /\ src = <<>>
  /\ tokens = <<>>
  /\ lastParagraphClipped = FALSE
  /\ ext = NoCall
  /\ html = <<>>
  /\ output = <<>>
  /\ invoked = {}

PageLoaded == RenderIdle /\ PageInit /\ RouterInit

\* ------------------------------------------------ compose, login, preview
MaxPreviews == 3

\* What the content field can hold.
ComposeContents == {<<>>, <<" ">>, <<"x">>, <<"y", " ">>}

\* controller.abort() for the request the controller belongs to, if it is
\* still in flight.
Abort(reqs, id) ==
  {IF r.id = id THEN [r EXCEPT !.aborted = TRUE] ELSE r : r \in reqs}

\* Lines 446-465: resetPreviewSession aborts the session's controller, clears
\* its timer and deletes the session.
resetPreviewSession(session, reqs) ==
  IF session.exists THEN Abort(reqs, session.abortController) ELSE reqs

\* Lines 374-435 up to the timer: schedulePreviewUpdate for a content.
schedulePreviewUpdate(content, session, reqs, preview) ==
  IF Trim(content) = <<>>
  THEN [session |-> NoSession,
        requests |-> resetPreviewSession(session, reqs),
        preview |-> EmptyPreview]
  ELSE [session |-> [exists |-> TRUE, debounceId |-> TRUE,
                     trimmed |-> Trim(content),
                     abortController |-> session.abortController],
        requests |-> reqs,
        preview |-> preview]

\* Lines 239-258
handleComposeContentInput(authenticated, content, session, reqs, preview) ==
  IF ~authenticated
  THEN [session |-> NoSession,
        requests |-> resetPreviewSession(session, reqs),
        preview |-> EmptyPreview]
  ELSE schedulePreviewUpdate(content, session, reqs, preview)

\* A mutant of ClosesModals: a lost session closes nothing.
ClosesModalsNever(authenticated) == FALSE

\* Line 72: updateAuthVisibility closes both modals when not authenticated.
ClosesModals(authenticated) == ~authenticated

\* Lines 498-507, on the compose variables.
CloseCompose ==
  /\ composeModal' = FALSE
  /\ composeContent' = <<>>
  /\ previewSessions' = NoSession
  /\ previewRequests' = resetPreviewSession(previewSessions, previewRequests)
  /\ composePreview' = EmptyPreview

\* Lines 78-84 and 68-76
SetAuthState(authenticated) ==
  /\ authState' = authenticated
  /\ IF ClosesModals(authenticated)
     THEN CloseCompose /\ loginModal' = FALSE
     ELSE UNCHANGED <<composeModal, composeContent, previewSessions,
                      previewRequests, composePreview, loginModal>>
  /\ UNCHANGED <<started, renderVars, searchVars, routerVars>>

\* Lines 480-496
OpenComposeModal ==
  /\ IF ~authState
     THEN /\ loginModal' = TRUE
          /\ UNCHANGED <<composeModal, previewSessions, previewRequests, composePreview>>
     ELSE LET after == handleComposeContentInput(authState, composeContent,
                         previewSessions, previewRequests, composePreview)
          IN /\ composeModal' = TRUE
             /\ previewSessions' = after.session
             /\ previewRequests' = after.requests
             /\ composePreview' = after.preview
             /\ UNCHANGED loginModal
  /\ UNCHANGED <<authState, composeContent, started, renderVars, searchVars, routerVars>>

\* Lines 498-507
CloseComposeModal ==
  /\ CloseCompose
  /\ UNCHANGED <<authState, loginModal, started, renderVars, searchVars, routerVars>>

\* Lines 509-519
OpenLoginModal ==
  /\ loginModal' = TRUE
  /\ UNCHANGED <<authState, composeModal, composeContent, previewSessions,
                 composePreview, previewRequests, started,
                 renderVars, searchVars, routerVars>>

\* Lines 521-528
CloseLoginModal ==
  /\ loginModal' = FALSE
  /\ UNCHANGED <<authState, composeModal, composeContent, previewSessions,
                 composePreview, previewRequests, started,
                 renderVars, searchVars, routerVars>>

\* An input event of the content field, which sits in the open compose
\* modal (lines 1032, 239-258).
ComposeInput(content) ==
  /\ composeModal
  /\ LET after == handleComposeContentInput(authState, content,
                    previewSessions, previewRequests, composePreview)
     IN /\ composeContent' = content
        /\ previewSessions' = after.session
        /\ previewRequests' = after.requests
        /\ composePreview' = after.preview
  /\ UNCHANGED <<authState, composeModal, loginModal, started,
                 renderVars, searchVars, routerVars>>

\* Lines 396-410: the timer fires and run starts a request, after aborting
\* the one the session's controller belongs to.
PreviewRun ==
  /\ previewSessions.exists
  /\ previewSessions.debounceId
  /\ started < MaxPreviews
  /\ started' = started + 1
  /\ composePreview' = [composePreview EXCEPT !.state = "loading", !.by = 0]
  /\ previewSessions' = [previewSessions EXCEPT !.debounceId = FALSE,
                                                !.abortController = started']
  /\ previewRequests' =
       Abort(previewRequests, previewSessions.abortController)
         \cup {[id |-> started', content |-> previewSessions.trimmed,
                phase |-> "sent", aborted |-> FALSE]}
  /\ UNCHANGED <<authState, composeModal, loginModal, composeContent,
                 renderVars, searchVars, routerVars>>

\* Line 588: fetch resolves with the response's status line and headers; what
\* is left of request is reading the body.
PreviewHeaders(r, ok) ==
  /\ r \in previewRequests
  /\ r.phase = "sent"
  /\ ~r.aborted
  /\ previewRequests' =
       (previewRequests \ {r})
         \cup {[r EXCEPT !.phase = IF ok THEN "body" ELSE "errorBody"]}
  /\ UNCHANGED <<authState, composeModal, loginModal, composeContent,
                 previewSessions, composePreview, started,
                 renderVars, searchVars, routerVars>>

\* Lines 412-415: the request resolved and run shows its HTML.
ReadyBy(r) == [state |-> "ready", html |-> r.id, by |-> r.id]

\* Lines 416-425: the request threw something that is not an AbortError.
ErrorBy(r, preview) == [preview EXCEPT !.state = "error", !.by = r.id]

\* Lines 590-609 and 412-425: the body has been read.  A response that is
\* not ok makes request throw an Error.
PreviewBody(r) ==
  /\ r \in previewRequests
  /\ r.phase \in {"body", "errorBody"}
  /\ ~r.aborted
  /\ previewRequests' = previewRequests \ {r}
  /\ composePreview' =
       IF r.phase = "body" THEN ReadyBy(r) ELSE ErrorBy(r, composePreview)
  /\ UNCHANGED <<authState, composeModal, loginModal, composeContent,
                 previewSessions, started, renderVars, searchVars, routerVars>>

\* Line 588: fetch rejects because the network failed.
PreviewFails(r) ==
  /\ r \in previewRequests
  /\ r.phase = "sent"
  /\ ~r.aborted
  /\ previewRequests' = previewRequests \ {r}
  /\ composePreview' = ErrorBy(r, composePreview)
  /\ UNCHANGED <<authState, composeModal, loginModal, composeContent,
                 previewSessions, started, renderVars, searchVars, routerVars>>

\* The name of what request throws once its signal is aborted.  fetch and
\* the body's json() reject with an AbortError; lines 593-602 catch the
\* rejection of json() for a response that is not ok and throw an Error
\* in its place.
ThrownName(r) == IF r.phase = "errorBody" THEN "Error" ELSE "AbortError"

\* Lines 416-425: run's catch for an aborted request.
PreviewAborted(r) ==
  /\ r \in previewRequests
  /\ r.aborted
  /\ previewRequests' = previewRequests \ {r}
  /\ composePreview' =
       IF ThrownName(r) = "AbortError"
       THEN composePreview
       ELSE ErrorBy(r, composePreview)
  /\ UNCHANGED <<authState, composeModal, loginModal, composeContent,
                 previewSessions, started, renderVars, searchVars, routerVars>>

NextCompose ==
  \/ \E authenticated \in BOOLEAN : SetAuthState(authenticated)
  \/ OpenComposeModal
  \/ CloseComposeModal
  \/ OpenLoginModal
  \/ CloseLoginModal
  \/ \E content \in ComposeContents : ComposeInput(content)
  \/ PreviewRun
  \/ \E r \in previewRequests, ok \in BOOLEAN : PreviewHeaders(r, ok)
  \/ \E r \in previewRequests : PreviewBody(r)
  \/ \E r \in previewRequests : PreviewFails(r)
  \/ \E r \in previewRequests : PreviewAborted(r)

SpecCompose == PageLoaded /\ [][NextCompose]_vars

\* ----------------------------------------------------- search and refresh
MaxPending == 1

\* What the search input can hold.
SearchValues == {<<>>, <<"a">>, <<"a", " ">>, <<"b">>}

\* Lines 612-648 up to the await: refreshPosts returns at once while an
\* earlier refresh is loading, and otherwise sends GET /posts with the
\* query of filters.
refreshPosts(attempt, query, isLoading, sent) ==
  IF isLoading
  THEN [loading |-> isLoading, postsRequest |-> sent]
  ELSE [loading |-> TRUE,
        postsRequest |-> [sent |-> TRUE, term |-> query, attempt |-> attempt]]

\* Lines 199-206 and 260-275: an input event that changes the term.
HandleSearchInput(value) ==
  /\ Trim(value) # filters
  /\ filters' = Trim(value)
  /\ searchDebounceId' = TRUE
  /\ UNCHANGED <<loading, postsRequest, refreshRetry, postList,
                 renderVars, composeVars, routerVars>>

\* Lines 192-197 and 184-190: the form is submitted, or cleared, and the
\* refresh is immediate.
HandleSearchSubmit(value) ==
  LET after == refreshPosts(1, Trim(value), loading, postsRequest)
  IN /\ filters' = Trim(value)
     /\ searchDebounceId' = FALSE
     /\ loading' = after.loading
     /\ postsRequest' = after.postsRequest
     /\ UNCHANGED <<refreshRetry, postList, renderVars, composeVars, routerVars>>

\* Lines 271-274: the debounce timer fires.
SearchDebounceFires ==
  LET after == refreshPosts(1, filters, loading, postsRequest)
  IN /\ searchDebounceId
     /\ searchDebounceId' = FALSE
     /\ loading' = after.loading
     /\ postsRequest' = after.postsRequest
     /\ UNCHANGED <<filters, refreshRetry, postList,
                    renderVars, composeVars, routerVars>>

\* Lines 630-632: the request resolved and the list is rendered.
PostsArrive ==
  /\ postsRequest.sent
  /\ postList' = postsRequest.term
  /\ postsRequest' = NoPostsRequest
  /\ loading' = FALSE
  /\ UNCHANGED <<filters, searchDebounceId, refreshRetry,
                 renderVars, composeVars, routerVars>>

\* The retry timers that have not fired yet.
Pending(retries) == retries[2] + retries[MAX_REFRESH_ATTEMPTS]

\* Lines 633-647: the request failed; a retry is scheduled while attempts
\* are left.
PostsFail ==
  LET nextAttempt == postsRequest.attempt + 1
  IN /\ postsRequest.sent
     /\ postsRequest' = NoPostsRequest
     /\ loading' = FALSE
     /\ IF nextAttempt <= MAX_REFRESH_ATTEMPTS
        THEN /\ Pending(refreshRetry) < MaxPending
             /\ refreshRetry' =
                  [refreshRetry EXCEPT ![nextAttempt] = refreshRetry[nextAttempt] + 1]
        ELSE UNCHANGED refreshRetry
     /\ UNCHANGED <<filters, searchDebounceId, postList,
                    renderVars, composeVars, routerVars>>

\* Lines 639-641: a retry timer fires.
RetryFires(attempt) ==
  LET after == refreshPosts(attempt, filters, loading, postsRequest)
  IN /\ refreshRetry[attempt] > 0
     /\ refreshRetry' = [refreshRetry EXCEPT ![attempt] = refreshRetry[attempt] - 1]
     /\ loading' = after.loading
     /\ postsRequest' = after.postsRequest
     /\ UNCHANGED <<filters, searchDebounceId, postList,
                    renderVars, composeVars, routerVars>>

NextSearch ==
  \/ \E value \in SearchValues : HandleSearchInput(value)
  \/ \E value \in SearchValues : HandleSearchSubmit(value)
  \/ SearchDebounceFires
  \/ PostsArrive
  \/ PostsFail
  \/ \E attempt \in 2..MAX_REFRESH_ATTEMPTS : RetryFires(attempt)

SpecSearch == PageLoaded /\ [][NextSearch]_vars

\* ===================================================== the posts router
MaxPosts == 2

\* A content whose first block is a fence tagged constructor.
ThrowingContent ==
  Fence(<<"c", "o", "n", "s", "t", "r", "u", "c", "t", "o", "r">>, <<"x">>)

\* renderMarkdown throws for a content: for the contents posted here, those
\* of one block, that is when the block is a fence whose renderer throws.
renderMarkdownThrows(content) ==
  LET cap == FencesMatch(content)
  IN  /\ cap.ok
      /\ renderCodeThrows(CodeToken(Prefix(content, cap.len), cap.text,
                                    Str(Trim(cap.info))))

\* session.ts: a token, by the number of its dot-separated parts, by
\* whether its signature is the HMAC of its base under the secret, and by
\* what its base decodes to.
Token(parts, signed, payload) ==
  [present |-> TRUE, parts |-> parts, signed |-> signed, payload |-> payload]

Cookies ==
  {NoCookie,
   Token(1, FALSE, "session"),
   Token(2, FALSE, "session"),
   Token(2, TRUE, "other"),
   Token(2, TRUE, "session")}

\* A mutant of decode: the signature is not compared.
decodeUnverified(token) ==
  IF token.parts # 2 THEN "null"
  ELSE IF token.payload # "session" THEN "null"
  ELSE "session"

\* session.ts lines 20-51
decode(token) ==
  IF token.parts # 2 THEN "null"
  ELSE IF ~token.signed THEN "null"
  ELSE IF token.payload # "session" THEN "null"
  ELSE "session"

\* session.ts parseSessionCookie
parseSessionCookie(cookie) ==
  IF ~cookie.present THEN "null" ELSE decode(cookie)

\* Lines 29-37: whether ensureAuthenticated returns.
ensureAuthenticated(req) == parseSessionCookie(req.cookie) # "null"

\* JSON objects posted: title and content, each there or not.
Payload(title, content) == [object |-> TRUE, title |-> title, content |-> content]
Payloads ==
  {Payload(title, content) :
     title \in {JsUndefined, Str(<<"t", " ">>)},
     content \in {JsUndefined, Str(<<" ">>), Str(<<"x">>), Str(ThrowingContent)}}
    \ {Payload(JsUndefined, Str(<<" ">>))}

\* Request bodies: none, text that is no JSON, JSON null and JSON objects.
JsonBody(payload) == [json |-> TRUE, text |-> "json", payload |-> payload]
RequestBodies ==
  {NoBody, [json |-> TRUE, text |-> "garbage", payload |-> NoPayload],
   JsonBody(NoPayload)}
    \cup {JsonBody(payload) : payload \in Payloads}

\* Lines 185-205 and 323-344: readJson.  read says whether request.text() was called.
readJson(body) ==
  IF ~body.json
  THEN [status |-> 415, error |-> "Content-Type must be application/json", read |-> FALSE]
  ELSE IF body.text # "json"
  THEN [status |-> 400, error |-> "Invalid JSON payload", read |-> TRUE]
  ELSE [status |-> 0, error |-> "", read |-> TRUE]

IsBlank(v) == v.type # "string" \/ Trim(v.text) = <<>>

\* Lines 240-269: the message validateCreatePayload throws with, or "".
validateCreatePayload(payload) ==
  IF ~payload.object THEN "Invalid request body"
  ELSE IF IsBlank(payload.title) THEN "title is required"
  ELSE IF IsBlank(payload.content) THEN "content is required"
  ELSE ""

\* Lines 271-313: the message validateUpdatePayload throws with, or "".
validateUpdatePayload(payload) ==
  IF ~payload.object THEN "Invalid request body"
  ELSE IF payload.title.type # "undefined" /\ IsBlank(payload.title)
  THEN "title must be a non-empty string"
  ELSE IF payload.content.type # "undefined" /\ IsBlank(payload.content)
  THEN "content must be a non-empty string"
  ELSE IF payload.title.type = "undefined" /\ payload.content.type = "undefined"
  THEN "At least one field must be provided"
  ELSE ""

\* Path segments after /posts/.
Segments == {<<"1">>, <<"0", "2">>, <<"9">>, <<"x">>}

DigitValue ==
  [c \in Digits |->
     CASE c = "0" -> 0 [] c = "1" -> 1 [] c = "2" -> 2 [] c = "3" -> 3
       [] c = "4" -> 4 [] c = "5" -> 5 [] c = "6" -> 6 [] c = "7" -> 7
       [] c = "8" -> 8 [] c = "9" -> 9]

RECURSIVE DecimalValue(_)
DecimalValue(s) ==
  IF s = <<>> THEN 0
  ELSE 10 * DecimalValue(SubSeq(s, 1, Len(s) - 1)) + DigitValue[s[Len(s)]]

\* Lines 127-131: Number(segment) and Number.isInteger, for segments that
\* are runs of decimal digits or hold a character no number has.
NumberOf(segment) ==
  IF \A i \in 1..Len(segment) : segment[i] \in Digits
  THEN [integer |-> TRUE, value |-> DecimalValue(segment)]
  ELSE [integer |-> FALSE, value |-> 0]

\* A request with a body: every body under a valid session, two of them
\* under each of the other cookies.
Carried ==
  {[cookie |-> Token(2, TRUE, "session"), body |-> body] : body \in RequestBodies}
  \cup
  {[cookie |-> cookie, body |-> body] :
     cookie \in Cookies \ {Token(2, TRUE, "session")},
     body \in {NoBody, JsonBody(Payload(Str(<<"t", " ">>), Str(<<"x">>)))}}

Request(method, path, segment, cookie, body) ==
  [method |-> method, path |-> path, segment |-> segment,
   cookie |-> cookie, body |-> body]

Requests ==
  {Request("GET", path, <<>>, cookie, NoBody) :
     path \in {"collection", "preview"},
     cookie \in {NoCookie, Token(2, TRUE, "session")}}
  \cup
  {Request("GET", "item", segment, cookie, NoBody) :
     segment \in Segments, cookie \in {NoCookie, Token(2, TRUE, "session")}}
  \cup
  {Request("DELETE", path, <<>>, cookie, NoBody) :
     path \in {"collection", "preview"},
     cookie \in {NoCookie, Token(2, TRUE, "session")}}
  \cup
  {Request("DELETE", "item", segment, cookie, NoBody) :
     segment \in Segments, cookie \in Cookies}
  \cup
  {Request(method, path, <<>>, c.cookie, c.body) :
     method \in {"POST", "PUT"}, path \in {"collection", "preview"},
     c \in Carried}
  \cup
  {Request(method, "item", segment, c.cookie, c.body) :
     method \in {"POST", "PUT", "PATCH"}, segment \in Segments, c \in Carried}

\* What a handler leaves: the response and the table.
Outcome(answer, rows, next) == [response |-> answer, posts |-> rows, nextId |-> next]
Refuse(status, error, bodyRead) ==
  Outcome(Answer(status, error, bodyRead, FALSE, 0, {}), posts, nextId)

\* Lines 372-379: serializePost renders the content; a throw is answered by
\* the catch of lines 169-180.
Serialized(status, id, rows, next, bodyRead) ==
  IF renderMarkdownThrows(rows[id].content)
  THEN Outcome(Answer(500, "Internal Server Error", bodyRead, TRUE, 0, {}), rows, next)
  ELSE Outcome(Answer(status, "", bodyRead, TRUE, id, {}), rows, next)

\* Lines 77-92
PreviewRoute(req) ==
  IF req.method # "POST" THEN Refuse(405, "", FALSE)
  ELSE IF ~ensureAuthenticated(req) THEN Refuse(401, "Authentication required", FALSE)
  ELSE IF readJson(req.body).status # 0
  THEN Refuse(readJson(req.body).status, readJson(req.body).error, readJson(req.body).read)
  ELSE IF req.body.payload.content.type # "string"
  THEN Refuse(400, "content must be a string", TRUE)
  ELSE IF renderMarkdownThrows(req.body.payload.content.text)
  THEN Outcome(Answer(500, "Internal Server Error", TRUE, TRUE, 0, {}), posts, nextId)
  ELSE Outcome(Answer(200, "", TRUE, TRUE, 0, {}), posts, nextId)

\* Lines 118-137 of the service: createPost stores the trimmed title and the
\* content under the next id.
createPost(payload) ==
  (nextId :> [title |-> Trim(payload.title.text), content |-> payload.content.text])
    @@ posts

\* Lines 94-114
CollectionRoute(req) ==
  IF req.method = "GET"
  THEN IF \E id \in DOMAIN posts : renderMarkdownThrows(posts[id].content)
       THEN Outcome(Answer(500, "Internal Server Error", FALSE, TRUE, 0, {}), posts, nextId)
       ELSE Outcome(Answer(200, "", FALSE, TRUE, 0, DOMAIN posts), posts, nextId)
  ELSE IF req.method # "POST" THEN Refuse(405, "", FALSE)
  ELSE IF ~ensureAuthenticated(req) THEN Refuse(401, "Authentication required", FALSE)
  ELSE IF readJson(req.body).status # 0
  THEN Refuse(readJson(req.body).status, readJson(req.body).error, readJson(req.body).read)
  ELSE IF validateCreatePayload(req.body.payload) # ""
  THEN Refuse(400, validateCreatePayload(req.body.payload), TRUE)
  ELSE Serialized(201, nextId, createPost(req.body.payload), nextId + 1, TRUE)

\* Lines 139-182 of the service: updatePost writes the fields of the patch.
updatePost(id, payload) ==
  [posts EXCEPT
     ![id] = [title |-> IF payload.title.type = "undefined"
                        THEN @.title ELSE Trim(payload.title.text),
              content |-> IF payload.content.type = "undefined"
                          THEN @.content ELSE payload.content.text]]

\* Lines 184-191 of the service: deletePost removes the row.
deletePost(id) == [i \in DOMAIN posts \ {id} |-> posts[i]]

\* Lines 124-168
ItemRoute(req) ==
  LET id == NumberOf(req.segment).value
  IN
  IF ~NumberOf(req.segment).integer THEN Refuse(400, "Invalid post id", FALSE)
  ELSE IF req.method = "GET"
  THEN IF id \notin DOMAIN posts
       THEN Refuse(404, "Post not found", FALSE)
       ELSE Serialized(200, id, posts, nextId, FALSE)
  ELSE IF req.method \in {"PUT", "PATCH"}
  THEN IF ~ensureAuthenticated(req) THEN Refuse(401, "Authentication required", FALSE)
       ELSE IF readJson(req.body).status # 0
       THEN Refuse(readJson(req.body).status, readJson(req.body).error, readJson(req.body).read)
       ELSE IF validateUpdatePayload(req.body.payload) # ""
       THEN Refuse(400, validateUpdatePayload(req.body.payload), TRUE)
       ELSE IF id \notin DOMAIN posts THEN Refuse(404, "Post not found", TRUE)
       ELSE Serialized(200, id, updatePost(id, req.body.payload), nextId, TRUE)
  ELSE IF req.method = "DELETE"
  THEN IF ~ensureAuthenticated(req) THEN Refuse(401, "Authentication required", FALSE)
       ELSE IF id \notin DOMAIN posts THEN Refuse(404, "Post not found", FALSE)
       ELSE Outcome(Answer(204, "", FALSE, FALSE, 0, {}), deletePost(id), nextId)
  ELSE Refuse(405, "", FALSE)

\* Lines 54-168
postsRouter(req) ==
  IF req.path = "preview" THEN PreviewRoute(req)
  ELSE IF req.path = "collection" THEN CollectionRoute(req)
  ELSE ItemRoute(req)

\* One request handled from its arrival to its response.
Handle(req) ==
  /\ postsRouter(req).nextId <= MaxPosts + 1
  /\ request' = req
  /\ response' = postsRouter(req).response
  /\ posts' = postsRouter(req).posts
  /\ nextId' = postsRouter(req).nextId
  /\ UNCHANGED <<renderVars, pageVars>>

NextPosts == \E req \in Requests : Handle(req)

SpecPosts == PageLoaded /\ [][NextPosts]_vars

\* ================================================================== claims
OpenTags(fragment, tag) ==
  {i \in 1..Len(fragment) : fragment[i].k = "open" /\ fragment[i].tag = tag}

Range(f) == {f[i] : i \in DOMAIN f}

\* The scheme a browser reads from an attribute value (URL Standard): leading
\* and trailing spaces and controls are stripped, tabs and line feeds are
\* removed everywhere.  The empty text stands for no scheme.
UrlScheme(value) == SchemeIn(SelectSeq(Trim(value), LAMBDA c : c \notin {"\t", "\n", "\r"}))

\* The argument is not a string, or holds nothing but whitespace.
Blank(in) ==
  ~in.isString \/ (in.rawHtml = <<>> /\ \A i \in 1..Len(in.text) : IsSpace(in.text[i]))

\* C1: every value renderMarkdown returns is the empty string or the
\* sanitizer's result for the whole rendered HTML: the source was lexed to its
\* end, html is the rendering of all its tokens, and the value returned is
\* sanitizeHtml of that html.
C1_ReturnsEmptyOrSanitizedWhole ==
  pc = "done" =>
    \/ output = <<>>
    \/ /\ src = <<>>
       /\ html = RenderTokens(tokens)
       /\ output = sanitizeHtml(html)

\* A call has returned a value that the sanitizer changed.
C1_Witness == pc = "done" /\ output # <<>> /\ output # html

\* C2: in the returned HTML an anchor's href carries no scheme or one of
\* http, https, mailto, and an image's src no scheme or one of http, https,
\* data; an image's data: src is kept.
C2_SchemesEnforced ==
  pc = "done" =>
    /\ \A i \in OpenTags(output, "a") :
         "href" \in DOMAIN output[i].attribs =>
           UrlScheme(output[i].attribs.href) \in {<<>>, Http, Https, Mailto}
    /\ \A i \in OpenTags(output, "img") :
         "src" \in DOMAIN output[i].attribs =>
           UrlScheme(output[i].attribs.src) \in {<<>>, Http, Https, Data}
    /\ \A i \in OpenTags(html, "img") :
         ("src" \in DOMAIN html[i].attribs /\ UrlScheme(html[i].attribs.src) = Data) =>
           \E j \in OpenTags(output, "img") :
             "src" \in DOMAIN output[j].attribs /\ output[j].attribs.src = html[i].attribs.src

\* A javascript: anchor was rendered and its href is gone from the output.
C2_Witness ==
  /\ pc = "done"
  /\ \E i \in OpenTags(html, "a") :
       "href" \in DOMAIN html[i].attribs /\ UrlScheme(html[i].attribs.href) = Javascript
  /\ \E j \in OpenTags(output, "a") : "href" \notin DOMAIN output[j].attribs

\* C3: every anchor of the returned HTML whose href is an absolute http or
\* https URL has both noopener and noreferrer among its rel tokens.
C3_RelOnEveryAbsoluteAnchor ==
  pc = "done" =>
    \A i \in OpenTags(output, "a") :
      ("href" \in DOMAIN output[i].attribs
         /\ UrlScheme(output[i].attribs.href) \in {Http, Https}) =>
        {Noopener, Noreferrer} \subseteq Range(SplitTokens(AttrOr(output[i].attribs, "rel", <<>>)))

\* C4: every tag of the returned HTML is an allowed tag and carries only
\* attributes allowed for it; script, style and iframe elements, event
\* handlers and style attributes never appear.
C4_OnlyAllowedTagsAndAttributes ==
  pc = "done" =>
    \A i \in 1..Len(output) :
      output[i].k = "open" =>
        /\ output[i].tag \in allowedTags
        /\ DOMAIN output[i].attribs \subseteq allowedAttributes(output[i].tag)
        /\ output[i].tag \notin {"script", "style", "iframe"}
        /\ DOMAIN output[i].attribs \cap {"onclick", "onerror", "onmouseover", "style"} = {}

\* The rendered HTML held a script element or an event handler.
C4_Witness ==
  /\ pc = "done"
  /\ output # <<>>
  /\ \E i \in 1..Len(html) :
       /\ html[i].k = "open"
       /\ html[i].tag = "script" \/ "onclick" \in DOMAIN html[i].attribs

\* C5: a call whose argument is not a string or is empty or whitespace only
\* returns the empty string, and at no point of it has the tokenizer, the
\* highlighter or the sanitizer run.
C5_BlankInputReturnsEmptyUntouched ==
  (pc \notin {"unit", "unitDone"} /\ Blank(input)) =>
    /\ pc \in {"start", "done"}
    /\ invoked = {}
    /\ tokens = <<>>
    /\ output = <<>>

\* A whitespace-only string was rendered.
C5_Witness == pc = "done" /\ input.isString /\ input.text # <<>> /\ Blank(input)

\* The definition-list tokens of the state: those lexed, and the one the
\* last tokenizer call returned.
DefinitionLists ==
  {tokens[i] : i \in {j \in 1..Len(tokens) : tokens[j].type = "definitionList"}}
  \cup (IF ext.token.type = "definitionList" THEN {ext.token} ELSE {})

\* C6: every entry of every definition-list token has at least one
\* description.
C6_EveryEntryHasADescription ==
  \A t \in DefinitionLists :
    \A k \in 1..Len(t.items) : Len(t.items[k].descriptions) >= 1

\* A token of two entries was produced.
C6_Witness == \E t \in DefinitionLists : Len(t.items) >= 2

FirstLine(s) == Prefix(s, LineLength(s))
HasSecondLine(s) == LineLength(s) < Len(s)
SecondLine(s) == FirstLine(Slice(s, LineLength(s) + 1))

\* The line's first character after its indentation is the marker.
ColonPrefixed(line) ==
  LET k == LeadingRun(line, " ") IN k < Len(line) /\ line[k + 1] = ":"

\* C7: the tokenizer returns no token when the term line at the cursor is not
\* directly followed by a colon-prefixed line, when the source is empty, and
\* when the source starts with a blank line.
C7_DeclinesWithoutDefinition ==
  ext.called =>
    /\ (TermMatch(ext.src).ok
          /\ ~(HasSecondLine(ext.src) /\ ColonPrefixed(SecondLine(ext.src))))
         => ext.token = Undefined
    /\ (ext.src = <<>> \/ \A i \in 1..LineLength(ext.src) : ext.src[i] = " ")
         => ext.token = Undefined

\* The tokenizer declined a term line followed by a line without marker.
C7_Witness ==
  /\ ext.called
  /\ TermMatch(ext.src).ok
  /\ HasSecondLine(ext.src)
  /\ SecondLine(ext.src) # <<>>
  /\ ~ColonPrefixed(SecondLine(ext.src))
  /\ ext.token = Undefined

\* C8 as stated: "Term\nNot a definition" renders as two paragraphs and no
\* definition list.
C8_TwoSeparateParagraphs ==
  (pc = "done" /\ input = StringInput(TermNotADefinition, <<>>)) =>
    /\ Cardinality(OpenTags(output, "p")) = 2
    /\ OpenTags(output, "dl") = {}

\* C8 as amended: "Term\nNot a definition" renders as one paragraph that
\* holds both lines with a line break between them, and no definition list.
C8_OneParagraphWithBreak ==
  (pc = "done" /\ input = StringInput(TermNotADefinition, <<>>)) =>
    output = << Open("p", NoAttribs), Text(FirstLine(TermNotADefinition)),
                Open("br", NoAttribs), Text(SecondLine(TermNotADefinition)),
                Close("p") >>

C8_Witness ==
  /\ pc = "done"
  /\ input = StringInput(TermNotADefinition, <<>>)
  /\ ext.called /\ ext.token = Undefined
  /\ Cardinality(OpenTags(output, "p")) = 1

\* The lines of a raw span that carry the definition marker.
MarkerLinesOf(raw) == {i \in 1..Len(Lines(raw)) : ColonPrefixed(Lines(raw)[i])}

RECURSIVE SumDescriptions(_)
SumDescriptions(items) ==
  IF items = <<>> THEN 0 ELSE Len(Head(items).descriptions) + SumDescriptions(Tail(items))

\* C9: a source that is one definition list renders as one <dl> from the
\* first tag to the last, every <dt> directly followed by the <dd> of its
\* entry; there are as many <dt> as terms and as many <dd> as definition
\* lines consumed.
C9_OneDtPerTermOneDdPerDefinitionLine ==
  (pc = "done" /\ Len(tokens) = 1 /\ tokens[1].type = "definitionList") =>
    /\ OpenTags(html, "dl") = {1}
    /\ html[Len(html)] = Close("dl")
    /\ Cardinality(OpenTags(html, "dt")) = Len(tokens[1].items)
    /\ Cardinality(OpenTags(html, "dd")) = SumDescriptions(tokens[1].items)
    /\ \A i \in OpenTags(html, "dt") :
         \E j \in OpenTags(html, "dd") : j > i /\ \A m \in (i + 1)..(j - 1) : html[m].k # "open"
    /\ Cardinality(OpenTags(html, "dd")) = Cardinality(MarkerLinesOf(tokens[1].raw))

\* A space token that holds empty lines only.
EmptyLines(token) ==
  token.type = "space" /\ \A i \in 1..Len(token.raw) : token.raw[i] = "\n"

Letters(s) == SelectSeq(s, LAMBDA c : c \notin {" ", "\n", ":"})

RECURSIVE DescriptionLetters(_)
DescriptionLetters(descriptions) ==
  IF descriptions = <<>> THEN <<>>
  ELSE Letters(Head(descriptions)) \o DescriptionLetters(Tail(descriptions))

RECURSIVE ItemLetters(_)
ItemLetters(items) ==
  IF items = <<>> THEN <<>>
  ELSE Letters(Head(items).term) \o DescriptionLetters(Head(items).descriptions)
       \o ItemLetters(Tail(items))

\* C11: a token's raw span is a non-empty prefix of the source the tokenizer
\* was given, ends at a line boundary with no line feed left after it, and
\* holds exactly the words of the accepted terms and definitions in order (so
\* no backtracked term is inside it); in the lexer the cursor stands right
\* after the span and has advanced.
C11_RawIsTheConsumedPrefix ==
  /\ (ext.called /\ ext.token # Undefined) =>
       LET raw  == ext.token.raw
           rest == Slice(ext.src, Len(raw))
       IN  /\ raw # <<>>
           /\ Len(raw) <= Len(ext.src)
           /\ raw = Prefix(ext.src, Len(raw))
           /\ rest = <<>> \/ (raw[Len(raw)] = "\n" /\ Head(rest) # "\n")
           /\ Letters(raw) = ItemLetters(ext.token.items)
           /\ pc \in {"lex", "sanitize", "done"} => src = rest
  /\ (ext.called /\ pc \in {"lex", "sanitize", "done"}) => Len(src) < Len(ext.src)

\* A token was returned for an entry followed by an empty line and a term
\* line that has no definition.
C11_Witness ==
  /\ ext.called
  /\ ext.token # Undefined
  /\ Len(ext.token.raw) >= 2
  /\ ext.token.raw[Len(ext.token.raw) - 1] = "\n"
  /\ TermMatch(Slice(ext.src, Len(ext.token.raw))).ok
\* C12: sanitizing the returned HTML again gives the same HTML: no tag,
\* attribute or text changes, so no rel token is added or moved and no
\* target changes.
C12_SanitizeIsIdempotent ==
  pc = "done" => ReturnValue(output) = output

\* The first pass rewrote an external anchor that came with a rel.
C12_Witness ==
  /\ pc = "done"
  /\ \E i \in OpenTags(html, "a") :
       /\ isExternal(AttrOr(html[i].attribs, "href", <<>>))
       /\ "rel" \in DOMAIN html[i].attribs
       /\ \E j \in OpenTags(output, "a") :
            /\ "rel" \in DOMAIN output[j].attribs
            /\ output[j].attribs.rel # html[i].attribs.rel
\* The attributes of a fragment's anchors, in order.
AnchorsOf(fragment) ==
  LET opens == SelectSeq(fragment, LAMBDA n : n.k = "open" /\ n.tag = "a")
  IN  [i \in 1..Len(opens) |-> opens[i].attribs]

Count(t, ts) == Cardinality({i \in 1..Len(ts) : ts[i] = t})

\* C13: for every rendered anchor whose href matches http/https, the rel of
\* the returned anchor holds each author token, noopener and noreferrer
\* exactly once and nothing else; its target is the author's when there is
\* one and _blank otherwise.
C13_RelMergedTargetDefaulted ==
  pc = "done" =>
    /\ Len(AnchorsOf(output)) = Len(AnchorsOf(html))
    /\ \A k \in 1..Len(AnchorsOf(html)) :
         LET before == AnchorsOf(html)[k]
             after  == AnchorsOf(output)[k]
             author == SplitTokens(AttrOr(before, "rel", <<>>))
             wanted == Range(author) \cup {Noopener, Noreferrer}
         IN  isExternal(AttrOr(before, "href", <<>>)) =>
               /\ "rel" \in DOMAIN after
               /\ Range(SplitTokens(after.rel)) = wanted
               /\ \A t \in wanted : Count(t, SplitTokens(after.rel)) = 1
               /\ "target" \in DOMAIN after
               /\ after.target = (IF "target" \in DOMAIN before THEN before.target
                                   ELSE BlankTarget)

\* An external anchor came with a repeated rel token and a target.
C13_Witness ==
  /\ pc = "done"
  /\ \E k \in 1..Len(AnchorsOf(html)) :
       LET before == AnchorsOf(html)[k]
           author == SplitTokens(AttrOr(before, "rel", <<>>))
       IN  /\ isExternal(AttrOr(before, "href", <<>>))
           /\ \E t \in Range(author) : Count(t, author) = 2
           /\ "target" \in DOMAIN before
\* C14: a rendered anchor whose href does not match http/https comes out
\* with the rel and the target it had, or without them when it had none, and
\* with no attribute or value it did not have.
C14_LocalAnchorsUntouched ==
  pc = "done" =>
    \A k \in 1..Min(Len(AnchorsOf(html)), Len(AnchorsOf(output))) :
      LET before == AnchorsOf(html)[k]
          after  == AnchorsOf(output)[k]
      IN  ~isExternal(AttrOr(before, "href", <<>>)) =>
            /\ \A n \in {"rel", "target"} :
                 /\ n \in DOMAIN after <=> n \in DOMAIN before
                 /\ n \in DOMAIN after => after[n] = before[n]
            /\ \A n \in DOMAIN after : n \in DOMAIN before /\ after[n] = before[n]

\* A local anchor that had neither rel nor target was returned with its href.
C14_Witness ==
  /\ pc = "done"
  /\ \E k \in 1..Len(AnchorsOf(output)) :
       LET before == AnchorsOf(html)[k]
       IN  /\ "href" \in DOMAIN before
           /\ ~isExternal(before.href)
           /\ before.href # <<>>
           /\ "href" \in DOMAIN AnchorsOf(output)[k]
           /\ DOMAIN before \cap {"rel", "target"} = {}

\* A call that lexed one code block and rendered it.
RenderedCode ==
  pc \in {"sanitize", "done"} /\ Len(tokens) = 1 /\ tokens[1].type = "code"

\* The language tag of a code token, as written; empty when there is none.
TagOf(token) == IF token.lang.type = "string" THEN token.lang.text ELSE <<>>

\* The first whitespace-delimited word of a tag, in lower case; empty for an
\* empty or whitespace-only tag.
FirstWordOf(tag) ==
  LET t == TrimStart(tag) IN ToLowerCase(Prefix(t, NonSpaceRun(t)))

\* The language a rendered code block carries.
DataLanguage(fragment) ==
  LET i == CHOOSE j \in OpenTags(fragment, "figure") : TRUE
  IN  fragment[i].attribs["data-language"]

\* The pairs the claim lists.
C15_Listed ==
  ObjectLiteral({
    <<<<"j", "s">>, <<"j", "a", "v", "a", "s", "c", "r", "i", "p", "t">>>>, <<<<"j", "s", "x">>, <<"j", "a", "v", "a", "s", "c", "r", "i", "p", "t">>>>, <<<<"t", "s">>, <<"t", "y", "p", "e", "s", "c", "r", "i", "p", "t">>>>,
    <<<<"t", "s", "x">>, <<"t", "y", "p", "e", "s", "c", "r", "i", "p", "t">>>>, <<<<"s", "h">>, <<"b", "a", "s", "h">>>>, <<<<"s", "h", "e", "l", "l">>, <<"b", "a", "s", "h">>>>, <<<<"z", "s", "h">>, <<"b", "a", "s", "h">>>>,
    <<<<"b", "a", "s", "h">>, <<"b", "a", "s", "h">>>>, <<<<"p", "y">>, <<"p", "y", "t", "h", "o", "n">>>>, <<<<"t", "e", "x", "t">>, <<"p", "l", "a", "i", "n", "t", "e", "x", "t">>>>, <<<<"j", "s", "o", "n", "c">>, <<"j", "s", "o", "n">>>> })

\* C15: a code block whose tag is absent, empty or whitespace only is
\* rendered as plaintext, and one whose first word is, in any letter case and
\* whatever follows it, one of js, jsx, ts, tsx, sh, shell, zsh, bash, py,
\* text, jsonc is rendered as the language listed for it.
C15_AliasesResolveByFirstWord ==
  \A i \in CodeTokens :
    LET word == FirstWordOf(TagOf(tokens[i]))
    IN  /\ word = <<>> => normalizeLanguage(tokens[i].lang) = Str(<<"p", "l", "a", "i", "n", "t", "e", "x", "t">>)
        /\ word \in DOMAIN C15_Listed =>
             /\ normalizeLanguage(tokens[i].lang) = Str(C15_Listed[word])
             /\ RenderedCode => DataLanguage(html) = C15_Listed[word]

\* A block tagged in upper case with a modifier after the tag was rendered.
C15_Witness ==
  /\ RenderedCode
  /\ pc = "done"
  /\ TagOf(tokens[1]) = <<"T", "S", "X", " ", "t", "i", "t", "l", "e">>
  /\ DataLanguage(output) = <<"t", "y", "p", "e", "s", "c", "r", "i", "p", "t">>

\* C16: a code block whose tag's first word is not a key of the alias table
\* resolves to that word in lower case, and the rendered block carries it as
\* its data-language.
C16_UnknownTagPassesThrough ==
  \A i \in CodeTokens :
    LET word == FirstWordOf(TagOf(tokens[i]))
    IN  (word # <<>> /\ word \notin DOMAIN CODE_LANGUAGE_ALIASES) =>
          /\ normalizeLanguage(tokens[i].lang) = Str(word)
          /\ pc # "thrown"
          /\ RenderedCode => DataLanguage(html) = word

\* C17 as stated: every tag resolves to a value of the alias table, and an
\* absent or unknown tag to plaintext.
C17_UnknownDefaultsToPlaintext ==
  \A i \in CodeTokens :
    LET word   == FirstWordOf(TagOf(tokens[i]))
        result == normalizeLanguage(tokens[i].lang)
    IN  /\ \E k \in DOMAIN CODE_LANGUAGE_ALIASES : result = Str(CODE_LANGUAGE_ALIASES[k])
        /\ word \notin DOMAIN CODE_LANGUAGE_ALIASES => result = Str(<<"p", "l", "a", "i", "n", "t", "e", "x", "t">>)

\* C17 as amended: an absent, empty or whitespace-only tag resolves to
\* plaintext, a tag whose first word is a key of the alias table to the
\* table's value for it, and a tag whose first word is unknown does not
\* default to plaintext.
C17_OnlyAbsentDefaultsToPlaintext ==
  \A i \in CodeTokens :
    LET word   == FirstWordOf(TagOf(tokens[i]))
        result == normalizeLanguage(tokens[i].lang)
    IN  /\ word = <<>> => result = Str(<<"p", "l", "a", "i", "n", "t", "e", "x", "t">>)
        /\ word \in DOMAIN CODE_LANGUAGE_ALIASES => result = Str(CODE_LANGUAGE_ALIASES[word])
        /\ (word # <<>> /\ word \notin DOMAIN CODE_LANGUAGE_ALIASES) => result # Str(<<"p", "l", "a", "i", "n", "t", "e", "x", "t">>)

\* A block with an unknown tag was rendered under its own name.
C17_Witness ==
  /\ RenderedCode
  /\ pc = "done"
  /\ FirstWordOf(TagOf(tokens[1])) = <<"r", "u", "s", "t">>
  /\ DataLanguage(output) = <<"r", "u", "s", "t">>

\* C18: for every tag normalizeLanguage gives a string and getLanguageLabel a
\* non-empty string, and no call ends in an exception.
C18_NoFailureModes ==
  /\ pc # "thrown"
  /\ \A i \in CodeTokens :
       LET language == normalizeLanguage(tokens[i].lang)
           label    == getLanguageLabel(language)
       IN  /\ language.type = "string"
           /\ label.type = "string"
           /\ label.text # <<>>

\* What stands between <code> and </code> in a rendered code block.
CodeBody(fragment) ==
  LET o == CHOOSE i \in OpenTags(fragment, "code") : TRUE
      c == CHOOSE i \in 1..Len(fragment) : fragment[i] = Close("code")
  IN  SubSeq(fragment, o + 1, c - 1)

\* The markup of the text runs of a fragment, joined.
RECURSIVE TextOf(_)
TextOf(fragment) ==
  IF fragment = <<>> THEN <<>>
  ELSE (IF Head(fragment).k = "text" THEN Head(fragment).text ELSE <<>>) \o TextOf(Tail(fragment))

\* No element inside: the body is bare text.
Unhighlighted(body) == \A i \in 1..Len(body) : body[i].k = "text"

\* C19: when the source of a code block is empty, its language is plaintext
\* or has no grammar, or the highlighter throws, the block is still rendered
\* and its body is the bare source, escaped: no markup of the highlighter,
\* no raw < or >, and the source is what a parser reads back from it.  A
\* throwing highlighter never ends the call in an exception.
C19_FallsBackToEscapedSource ==
  /\ RenderedCode =>
       LET source   == tokens[1].text
           language == DataLanguage(html)
           body     == CodeBody(html)
       IN  (source = <<>> \/ language = <<"p", "l", "a", "i", "n", "t", "e", "x", "t">> \/ ~HasGrammar(language) \/ hljsThrows) =>
             /\ Unhighlighted(body)
             /\ \A i \in 1..Len(TextOf(body)) : TextOf(body)[i] \notin {"<", ">"}
             /\ DecodeEntities(TextOf(body)) = source
  /\ (pc = "thrown" /\ hljsThrows) =>
       \E i \in CodeTokens : normalizeLanguage(tokens[i].lang).type # "string"

\* The highlighter threw for a language that has a grammar, and the block was
\* returned with its source escaped.
C19_Witness ==
  /\ RenderedCode
  /\ pc = "done"
  /\ hljsThrows
  /\ HasGrammar(DataLanguage(html))
  /\ DataLanguage(html) # <<"p", "l", "a", "i", "n", "t", "e", "x", "t">>
  /\ tokens[1].text = <<"a", "<", "b">>
  /\ TextOf(CodeBody(output)) = <<"a", "&", "l", "t", ";", "b">>

\* C20: in the rendered block and in the returned HTML the text of the code
\* body holds no raw < or >, and decoding it once gives the source: it was
\* escaped once, whether the highlighter or escapeHtml wrote it.
C20_BodyEscapedExactlyOnce ==
  RenderedCode =>
    /\ \A i \in 1..Len(TextOf(CodeBody(html))) : TextOf(CodeBody(html))[i] \notin {"<", ">"}
    /\ DecodeEntities(TextOf(CodeBody(html))) = tokens[1].text
    /\ pc = "done" =>
         /\ \A i \in 1..Len(TextOf(CodeBody(output))) :
              TextOf(CodeBody(output))[i] \notin {"<", ">"}
         /\ DecodeEntities(TextOf(CodeBody(output))) = tokens[1].text

\* A highlighted block whose source holds < was returned.
C20_Witness ==
  /\ RenderedCode
  /\ pc = "done"
  /\ ~Unhighlighted(CodeBody(output))
  /\ tokens[1].text = <<"a", "<", "b">>
  /\ TextOf(CodeBody(output)) = <<"a", "&", "l", "t", ";", "b">>
\* The offsets of a source at which a line starts.
LineStarts(s) == {i \in 0..Len(s) : i = 0 \/ s[i] = "\n"}

\* The tokenizer produces a token for the source from offset i on.
Accepts(s, i) == tokenizer(Slice(s, i)) # Undefined

\* C30: start(src) is the first line start at which the tokenizer, applied
\* to the source from there, produces a token; it is undefined (-1) exactly
\* when the tokenizer accepts at no line start.
C30_StartAgreesWithTokenizer ==
  input.isString =>
    LET s == input.text
        i == start(s)
    IN  /\ i = -1 => \A j \in LineStarts(s) : ~Accepts(s, j)
        /\ i # -1 =>
             /\ i \in LineStarts(s)
             /\ Accepts(s, i)
             /\ \A j \in LineStarts(s) : j < i => ~Accepts(s, j)
\* A paragraph was cut at the offset start found, and the tokenizer took the
\* definition list from there.
C30_Witness ==
  /\ pc = "done"
  /\ input.isString
  /\ start(input.text) > 0
  /\ Len(tokens) = 2
  /\ tokens[1].type = "paragraph"
  /\ tokens[2].type = "definitionList"
  /\ tokens[2].raw = Slice(input.text, start(input.text))
\* The element opened at i in the fragment carries the attribute with the value.
HasAttribute(fragment, i, name, value) ==
  name \in DOMAIN fragment[i].attribs /\ fragment[i].attribs[name] = value

\* The HTML returned for a fenced code block holds a figure with, inside it,
\* a code element and a button; figure and code carry the language the fence
\* tag resolves to as data-language, the button data-action copy-code.
C21_ReturnedBlockIsWhole ==
  (pc = "done" /\ RenderedCode /\ tokens[1].lang.type = "string") =>
    LET language == normalizeLanguage(tokens[1].lang).text
    IN  \E f \in OpenTags(output, "figure"), c \in OpenTags(output, "code"),
           b \in OpenTags(output, "button"), e \in 1..Len(output) :
          /\ output[e] = Close("figure")
          /\ f < b /\ b < c /\ c < e
          /\ HasAttribute(output, f, "data-language", language)
          /\ HasAttribute(output, c, "data-language", language)
          /\ HasAttribute(output, b, "data-action", CopyCode)

\* C21: every fenced code block is returned, no call on one ends in an
\* exception, and what is returned holds the figure, the code element and
\* the copy button with their attributes.
C21_CodeBlockSurvivesSanitizing ==
  /\ (\E i \in CodeTokens : tokens[i].lang.type = "string") => pc # "thrown"
  /\ C21_ReturnedBlockIsWhole

\* A block fenced with the tag js was returned.
C21_Witness ==
  /\ pc = "done"
  /\ RenderedCode
  /\ TagOf(tokens[1]) = <<"j", "s">>
  /\ \E f \in OpenTags(output, "figure"), c \in OpenTags(output, "code") :
       /\ f < c
       /\ HasAttribute(output, f, "data-language", <<"j", "a", "v", "a", "s", "c", "r", "i", "p", "t">>)
       /\ HasAttribute(output, c, "data-language", <<"j", "a", "v", "a", "s", "c", "r", "i", "p", "t">>)
\* A paragraph holding one image was rendered.
RenderedImage ==
  /\ pc \in {"sanitize", "done"}
  /\ Len(tokens) = 1
  /\ tokens[1].type = "paragraph"
  /\ ImageMatch(tokens[1].text).ok
  /\ ImageMatch(tokens[1].text).len = Len(tokens[1].text)

\* The image token of that paragraph and the attributes of the img rendered.
TheImage == ImageMatch(tokens[1].text).token
ImgAttribs == html[CHOOSE i \in OpenTags(html, "img") : TRUE].attribs

\* What the rendering of the image has whatever its src, alt and title: one
\* img with the fixed attributes, and a title only when the token has one.
ImageFixedPart ==
  /\ Cardinality(OpenTags(html, "img")) = 1
  /\ \A p \in FixedImageAttributes :
       p[1] \in DOMAIN ImgAttribs /\ ImgAttribs[p[1]] = p[2]
  /\ {"src", "alt"} \subseteq DOMAIN ImgAttribs
  /\ "title" \in DOMAIN ImgAttribs <=> StringOrEmpty(TheImage.title) # <<>>

\* C22 as stated: src, alt and title are the token's values, trimmed.
C22_ImageAttributesTrimmed ==
  RenderedImage =>
    /\ ImageFixedPart
    /\ ImgAttribs.src = Trim(StringOrEmpty(TheImage.href))
    /\ ImgAttribs.alt = Trim(StringOrEmpty(TheImage.text))
    /\ "title" \in DOMAIN ImgAttribs =>
         ImgAttribs.title = Trim(StringOrEmpty(TheImage.title))

\* C22 as amended: src is the token's href trimmed, alt and title are the
\* token's text and title as they are.
C22_OnlySourceTrimmed ==
  RenderedImage =>
    /\ ImageFixedPart
    /\ ImgAttribs.src = Trim(StringOrEmpty(TheImage.href))
    /\ ImgAttribs.alt = StringOrEmpty(TheImage.text)
    /\ "title" \in DOMAIN ImgAttribs =>
         ImgAttribs.title = StringOrEmpty(TheImage.title)

\* An image whose href, alt and title all hold spaces at their ends was
\* rendered.
C22_Witness ==
  /\ RenderedImage
  /\ TheImage = ImageToken(Str(<<" ", "u", " ">>), Str(<<" ", "a", " ">>), Str(<<" ", "t", " ">>))
  /\ ImgAttribs.src = <<"u">>
  /\ ImgAttribs.alt = <<" ", "a", " ">>
  /\ ImgAttribs.title = <<" ", "t", " ">>
\* The task items of a list token, in order.
TaskItems(token) == SelectSeq(token.items, LAMBDA item : item.task)

\* The checkbox spans of a fragment, in order: where each opens.
RECURSIVE CheckboxSpans(_, _)
CheckboxSpans(fragment, i) ==
  IF i > Len(fragment) THEN <<>>
  ELSE (IF /\ fragment[i].k = "open" /\ fragment[i].tag = "span"
           /\ HasAttribute(fragment, i, "class", <<"t", "a", "s", "k", "-", "c", "h", "e", "c", "k", "b", "o", "x">>)
        THEN <<i>> ELSE <<>>) \o CheckboxSpans(fragment, i + 1)

\* The fragment renders the task items as spans: one span per task item, in
\* order, with data-checked true exactly for a checked item and false
\* otherwise, holding the glyph of its state, and no input element.
TasksAsSpans(fragment, items) ==
  LET spans == CheckboxSpans(fragment, 1)
  IN  /\ OpenTags(fragment, "input") = {}
      /\ Len(spans) = Len(items)
      /\ \A n \in 1..Len(spans) :
           /\ HasAttribute(fragment, spans[n], "data-checked",
                           IF items[n].checked THEN <<"t", "r", "u", "e">> ELSE <<"f", "a", "l", "s", "e">>)
           /\ fragment[spans[n] + 1] =
                Text(IF items[n].checked THEN CheckedGlyph ELSE UncheckedGlyph)
           /\ fragment[spans[n] + 2] = Close("span")

\* C23: the checkbox of every task item is rendered as a span with
\* data-checked true or false as the item is checked or not and a glyph of
\* its own for each state, never as an input, and the returned HTML keeps
\* the span and its data-checked.
C23_CheckboxIsASpan ==
  /\ CheckedGlyph # UncheckedGlyph
  /\ \A i \in 1..Len(tokens) :
       tokens[i].type = "list" =>
         /\ pc \in {"sanitize", "done"} => TasksAsSpans(html, TaskItems(tokens[i]))
         /\ pc = "done" => TasksAsSpans(output, TaskItems(tokens[i]))

\* A list with a checked and an unchecked task was returned.
C23_Witness ==
  /\ pc = "done"
  /\ Len(tokens) = 1
  /\ tokens[1].type = "list"
  /\ Len(TaskItems(tokens[1])) = 2
  /\ TaskItems(tokens[1])[1].checked
  /\ ~TaskItems(tokens[1])[2].checked
  /\ Len(CheckboxSpans(output, 1)) = 2

C25_ComposeOpenOnlyAuthenticated == composeModal => authState

\* The compose modal is open, over the login modal left open, and shows a
\* preview.
C25_Witness ==
  /\ composeModal
  /\ authState
  /\ loginModal
  /\ composePreview.state = "ready"

\* The HTML a ready preview shows comes from the request the live session
\* started last; after a reset there is no session and the preview is empty.
C29_ReadyHtmlIsCurrent ==
  composePreview.state = "ready" =>
    /\ previewSessions.exists
    /\ composePreview.html = previewSessions.abortController

\* C29: a preview request that was superseded by a later run, or dropped by
\* a reset of the session, never writes the preview: whatever a request wrote
\* (the ready state and its HTML, or the error state) was written by the
\* request the live session started last.
C29_SupersededNeverOverwrites ==
  /\ C29_ReadyHtmlIsCurrent
  /\ composePreview.state \in {"ready", "error"} =>
       /\ previewSessions.exists
       /\ composePreview.by = previewSessions.abortController

\* C26: when the search debounce timer fires, that is when no input followed
\* the last change of the term for SEARCH_DEBOUNCE_MS, a request carrying the
\* term of filters is on its way to refresh the list.
C26_DebouncedRefreshCarriesLatestTerm ==
  [][SearchDebounceFires =>
       (postsRequest'.sent /\ postsRequest'.term = filters)]_vars

\* The id a request for one post names, 0 when it names none.
ItemId(req) ==
  IF req.path = "item" /\ NumberOf(req.segment).integer
  THEN NumberOf(req.segment).value
  ELSE 0

\* The ids the table has given out and holds no more: each was removed by a
\* DELETE that answered 204.
Deleted == (1..(nextId - 1)) \ DOMAIN posts

\* C27: a stored post is returned by GET /posts/:id and every stored post is
\* listed by GET /posts; once a DELETE has answered 204 for an id, every
\* GET, PUT, PATCH or DELETE for it answers 404 'Post not found'.
C27_CrudLifecycle ==
  [][/\ (request'.method = "GET" /\ ItemId(request') \in DOMAIN posts) =>
          (response'.status = 200 /\ response'.post = ItemId(request'))
     /\ (request'.method = "GET" /\ request'.path = "collection") =>
          (response'.status = 200 /\ response'.listed = DOMAIN posts)
     /\ (request'.method \in {"GET", "PUT", "PATCH", "DELETE"}
           /\ ItemId(request') \in Deleted) =>
          (response'.status = 404 /\ response'.error = "Post not found")]_vars

\* A session cookie whose signature verifies and whose payload is a session.
ValidSession(cookie) ==
  cookie.present /\ cookie.parts = 2 /\ cookie.signed /\ cookie.payload = "session"

\* The routes that create, update, delete or preview.
Mutating(req) ==
  \/ req.method = "POST" /\ req.path \in {"collection", "preview"}
  \/ req.method \in {"PUT", "PATCH", "DELETE"} /\ req.path = "item"

Rejected(req, answer) ==
  \/ answer.status = 401
  \/ /\ answer.status = 400
     /\ answer.error = "Invalid post id"
     /\ req.path = "item"
     /\ ~NumberOf(req.segment).integer

\* C28: a request to create, update, delete or preview that carries no valid
\* session is answered 401 (400 for an id that is no integer) with its body
\* unread and nothing rendered, and leaves the table as it was; no GET is
\* answered 401.
C28_NoMutationWithoutSession ==
  [][/\ (Mutating(request') /\ ~ValidSession(request'.cookie)) =>
          /\ Rejected(request', response')
          /\ ~response'.bodyRead
          /\ ~response'.rendered
          /\ posts' = posts
          /\ nextId' = nextId
     /\ request'.method = "GET" => response'.status # 401]_vars

\* A DELETE with a forged cookie was answered 401 and the post is still
\* stored.
C28_Witness ==
  /\ request.method = "DELETE"
  /\ request.cookie = Token(2, FALSE, "session")
  /\ ItemId(request) \in DOMAIN posts
  /\ response.status = 401
====
